---------------------------- MODULE Spec2Model ----------------------------
(***************************************************************************)
(* Model of the diff engine of elm-doc-preview.                            *)
(*                                                                         *)
(* parseDiffOutput (the doc server's copy, identical line for line to the  *)
(* copy in docs-server/api/preview.ts) is modelled as the index-based      *)
(* state machine it is: one action per loop iteration or loop exit.  Text  *)
(* is a sequence of one-character strings and every regular expression of  *)
(* the source is an operator that matches character by character.          *)
(***************************************************************************)
EXTENDS Integers, Sequences, FiniteSets, TLC

(***************************************************************************)
(* Characters and character classes.                                       *)
(***************************************************************************)
NL == "\n"

\* \s of a JavaScript regular expression, restricted to the white space
\* that can occur inside a line.
Whitespace == {" ", "\t"}

\* [a-zA-Z]
Letters ==
  {"a","b","c","d","e","f","g","h","i","j","k","l","m",
   "n","o","p","q","r","s","t","u","v","w","x","y","z",
   "A","B","C","D","E","F","G","H","I","J","K","L","M",
   "N","O","P","Q","R","S","T","U","V","W","X","Y","Z"}

\* [0-9]
Digits == {"0","1","2","3","4","5","6","7","8","9"}

\* [a-zA-Z0-9_]
IdentChars == Letters \cup Digits \cup {"_"}

(***************************************************************************)
(* Literal texts of the source's regular expressions and comparisons.      *)
(***************************************************************************)
T_ThisIsA == <<"T","h","i","s"," ","i","s"," ","a"," ">>
T_Change == <<" ","c","h","a","n","g","e">>
T_MAJOR == <<"M","A","J","O","R">>
T_MINOR == <<"M","I","N","O","R">>
T_PATCH == <<"P","A","T","C","H">>
T_AddedModules == <<" ","A","D","D","E","D"," ","M","O","D","U","L","E","S">>
T_RemovedModules ==
  <<" ","R","E","M","O","V","E","D"," ","M","O","D","U","L","E","S">>
T_AddedColon == <<"A","d","d","e","d",":">>
T_ChangedColon == <<"C","h","a","n","g","e","d",":">>
T_RemovedColon == <<"R","e","m","o","v","e","d",":">>

\* The alternation (MAJOR|MINOR|PATCH).
Magnitudes == {T_MAJOR, T_MINOR, T_PATCH}

(***************************************************************************)
(* String primitives.                                                      *)
(***************************************************************************)
Drop(s, n) == SubSeq(s, n + 1, Len(s))

StartsWith(s, p) == Len(s) >= Len(p) /\ SubSeq(s, 1, Len(p)) = p

\* Length of the longest prefix of s whose characters are all in class.
RunLength(s, class) ==
  LET other == {k \in 1..Len(s) : s[k] \notin class}
  IN  IF other = {} THEN Len(s)
      ELSE (CHOOSE k \in other : \A j \in other : k <= j) - 1

\* Length of the longest suffix of s whose characters are all in class.
RunLengthBack(s, class) ==
  LET other == {k \in 1..Len(s) : s[k] \notin class}
  IN  IF other = {} THEN Len(s)
      ELSE Len(s) - (CHOOSE k \in other : \A j \in other : j <= k)

\* String.prototype.trim
Trim(s) ==
  LET lead == RunLength(s, Whitespace)
      rest == Drop(s, lead)
  IN  SubSeq(rest, 1, Len(rest) - RunLengthBack(rest, Whitespace))

\* Position of the first occurrence of character c in s, 0 when there is none.
FirstIndex(s, c) ==
  LET at == {k \in 1..Len(s) : s[k] = c}
  IN  IF at = {} THEN 0 ELSE CHOOSE k \in at : \A j \in at : k <= j

\* The elements of the set S of numbers as a sequence in increasing order.
Ascending(S) ==
  [k \in 1..Cardinality(S) |-> CHOOSE x \in S : Cardinality({y \in S : y < x}) = k - 1]

\* String.prototype.split("\n"): the pieces between the separators; a text
\* without separator, the empty text included, gives one piece.
Split(text) ==
  LET seps == Ascending({k \in 1..Len(text) : text[k] = NL})
      from(k) == IF k = 1 THEN 1 ELSE seps[k - 1] + 1
      to(k) == IF k = Len(seps) + 1 THEN Len(text) ELSE seps[k] - 1
  IN  [k \in 1..(Len(seps) + 1) |-> SubSeq(text, from(k), to(k))]

\* Array.prototype.join("\n") (used to build the input texts).
RECURSIVE Join(_)
Join(ls) ==
  IF Len(ls) = 0 THEN <<>>
  ELSE IF Len(ls) = 1 THEN ls[1]
  ELSE ls[1] \o <<NL>> \o Join(Tail(ls))

(***************************************************************************)
(* The regular expressions of parseDiffOutput.                             *)
(***************************************************************************)
NoMatch == <<>>

\* The announcement "This is a <w> change" stands at position k of line.
AnnouncementAt(line, k, w) ==
  StartsWith(Drop(line, k - 1), T_ThisIsA \o w \o T_Change)

\* The expression anchored at the start of the line, /^This is a .../.
MagnitudeMatchAnchored(line) ==
  IF \E w \in Magnitudes : AnnouncementAt(line, 1, w)
  THEN CHOOSE w \in Magnitudes : AnnouncementAt(line, 1, w)
  ELSE NoMatch

\* line.match(/This is a (MAJOR|MINOR|PATCH) change/): the word captured by
\* the leftmost match (the expression is not anchored), or NoMatch.
MagnitudeMatch(line) ==
  LET at == {k \in 1..Len(line) : \E w \in Magnitudes : AnnouncementAt(line, k, w)}
  IN  IF at = {} THEN NoMatch
      ELSE LET k == CHOOSE k \in at : \A j \in at : k <= j
           IN  CHOOSE w \in Magnitudes : AnnouncementAt(line, k, w)

\* line.match(/^-+ ADDED MODULES/)
IsAddedModulesHeader(line) ==
  LET n == RunLength(line, {"-"})
  IN  n >= 1 /\ StartsWith(Drop(line, n), T_AddedModules)

\* line.match(/^-+ REMOVED MODULES/)
IsRemovedModulesHeader(line) ==
  LET n == RunLength(line, {"-"})
  IN  n >= 1 /\ StartsWith(Drop(line, n), T_RemovedModules)

\* line.match(/^\s+\S/)
IsIndentedEntry(line) ==
  LET n == RunLength(line, Whitespace)
  IN  n >= 1 /\ Len(line) > n

\* line.match(/^-{4,}/)
IsDashBanner(line) == RunLength(line, {"-"}) >= 4

\* t matches / - (?:MAJOR|MINOR|PATCH) -{4,}$/ from its first character.
IsBannerTail(t) ==
  \E w \in Magnitudes :
    LET lit == <<" ", "-", " ">> \o w \o <<" ">>
        dashes == Drop(t, Len(lit))
    IN  /\ StartsWith(t, lit)
        /\ Len(dashes) >= 4
        /\ RunLength(dashes, {"-"}) = Len(dashes)

\* The lengths the group (.+?) can take in
\* /^-{4,} (.+?) - (?:MAJOR|MINOR|PATCH) -{4,}$/.
BannerNameLengths(line) ==
  LET n == RunLength(line, {"-"})
  IN  IF n >= 4 /\ Len(line) > n /\ line[n + 1] = " "
      THEN {m \in 1..(Len(line) - n - 1) : IsBannerTail(Drop(line, n + 1 + m))}
      ELSE {}

\* line.match(/^-{4,} .+ - (MAJOR|MINOR|PATCH) -{4,}$/)
IsModuleBanner(line) == BannerNameLengths(line) # {}

\* line.match(/^-{4,} (.+?) - (?:MAJOR|MINOR|PATCH) -{4,}$/)[1]: the group
\* is lazy, it takes the shortest name that lets the rest match.
ModuleBannerName(line) ==
  LET ms == BannerNameLengths(line)
      n == RunLength(line, {"-"})
  IN  IF ms = {} THEN NoMatch
      ELSE LET m == CHOOSE m \in ms : \A j \in ms : m <= j
           IN  SubSeq(line, n + 2, n + 1 + m)

\* sectionLine.replace(/^[+-]\s*/, "")
StripMarker(sectionLine) ==
  IF sectionLine # <<>> /\ sectionLine[1] \in {"+", "-"}
  THEN Drop(sectionLine, 1 + RunLength(Tail(sectionLine), Whitespace))
  ELSE sectionLine

\* cleanLine.match(/^([a-zA-Z][a-zA-Z0-9_]*)\s+:/)[1], or NoMatch.
ItemNameMatch(cleanLine) ==
  IF cleanLine = <<>> \/ cleanLine[1] \notin Letters THEN NoMatch
  ELSE LET n == RunLength(cleanLine, IdentChars)
           rest == Drop(cleanLine, n)
           sp == RunLength(rest, Whitespace)
       IN  IF sp >= 1 /\ Len(rest) > sp /\ rest[sp + 1] = ":"
           THEN SubSeq(cleanLine, 1, n)
           ELSE NoMatch

(***************************************************************************)
(* Input texts.  A report is a preamble followed by at most MaxBodyLines   *)
(* further lines.  The lines are those of the compiler's diff reports (an  *)
(* announcement, the three kinds of banner, subsection headers, item lines *)
(* with and without marker, a continuation line of a signature, an         *)
(* indented module name, a blank line) and texts that are no report.       *)
(***************************************************************************)
MaxBodyLines == 4

L_Blank == <<>>
L_Random == <<"s","o","m","e"," ","r","a","n","d","o","m"," ","t","e","x","t">>
L_Major == T_ThisIsA \o T_MAJOR \o T_Change \o <<".">>
L_MinorInside == <<"n","b",":"," ">> \o T_ThisIsA \o T_MINOR \o T_Change
L_Lowercase == <<"t","h","i","s"," ","i","s"," ","a"," ">> \o T_PATCH \o T_Change
L_AddedBanner ==
  <<"-","-","-","-">> \o T_AddedModules \o <<" ","-"," ">> \o T_MINOR
    \o <<" ","-","-","-","-">>
L_RemovedBanner ==
  <<"-","-","-","-">> \o T_RemovedModules \o <<" ","-"," ">> \o T_MAJOR
    \o <<" ","-","-","-","-">>
L_BannerM ==
  <<"-","-","-","-"," ","M"," ","-"," ">> \o T_PATCH \o <<" ","-","-","-","-">>
L_BannerN ==
  <<"-","-","-","-","-"," ","N"," ","-"," ">> \o T_MAJOR \o <<" ","-","-","-","-">>
L_Added == <<" "," ">> \o T_AddedColon
L_Changed == <<" "," ">> \o T_ChangedColon
L_Removed == <<" "," ">> \o T_RemovedColon
L_ItemF == <<" "," "," "," ","f"," ",":"," ","T">>
L_PlusG == <<" "," ","+"," ","g","1"," "," ",":">>
L_MinusF == <<" "," ","-"," ","f"," ",":"," ","T">>
L_Continuation == <<" "," "," "," ","-",">"," ","T">>
L_Name == <<" "," "," "," ","K">>

\* First lines: the empty text's only line, a text that is no report, an
\* announcement, an announcement that is not at the start of the line, and
\* one that starts with a small letter.
FirstLines ==
  {<<L_Blank>>, <<L_Random>>, <<L_Major>>, <<L_MinorInside>>, <<L_Lowercase>>}

\* The announcement of a report.
Announcement == {<<L_Major>>}

\* Lines of whole reports: banners, module names, a subsection and an item.
ReportLines ==
  {L_Blank, L_AddedBanner, L_RemovedBanner, L_BannerM, L_BannerN, L_Name,
   L_Added, L_ItemF}

\* A report that lists an added and a removed module and opens the body of
\* module M.
ModulePreamble ==
  {<<L_Major, L_Blank, L_AddedBanner, L_Name, L_RemovedBanner, L_Name, L_BannerM>>}

\* A text that is no report and an announcement.
ShortFirstLines == {<<L_Random>>, <<L_Major>>}

\* The lines that open, fill and end the three kinds of body.
ScanLines == {L_Blank, L_AddedBanner, L_RemovedBanner, L_BannerM, L_Name}

\* The banners and the line that is an entry of every kind of body.
BannerLines == {L_AddedBanner, L_RemovedBanner, L_BannerM, L_Name}

\* The banners of the module lists and of two modules, a subsection header
\* and an item.
SectionLines ==
  {L_AddedBanner, L_RemovedBanner, L_BannerM, L_BannerN, L_Added, L_ItemF}

\* Lines of a module body.
BodyLines ==
  {L_Blank, L_Added, L_Changed, L_Removed, L_MinusF, L_PlusG, L_Continuation}

(***************************************************************************)
(* State of one call of parseDiffOutput.                                   *)
(***************************************************************************)
VARIABLES
  output,   \* the argument: the text of the report
  lines,    \* output.split("\n")
  i,        \* index of the current line, counted from 0 as in the source
  diff,     \* the ApiDiff under construction
  mc,       \* the ApiModuleChanges under construction
  section,  \* the active subsection of the module body
  pc,       \* the loop the call is in
  result,   \* what the call returned
  \* buildDiff
  elmResult,  \* what elm(["diff"]) did
  built,      \* what buildDiff returned
  \* computeContentDiff
  publishedDocs,    \* the four arguments
  currentDocs,
  publishedReadme,
  currentReadme,
  contentDiff,      \* the ContentDiff under construction (diff in the source)
  hasAnyDiff,
  m,                \* index of currentMod in currentDocs, counted from 1
  moduleDiff,       \* the items of the current module
  moduleHasDiff,
  cpc,              \* the loop the call is in
  contentResult,    \* what the call returned
  \* computeLineDiff
  oldText,     \* the two arguments
  newText,
  changes,     \* what diffLines returned
  change,      \* index of the change of the loop, counted from 1
  lineDiff,    \* the DiffLines pushed so far (result in the source)
  lpc,         \* the statement the call is at
  lineResult,  \* what the call returned
  \* getLatestPublishedVersion, loadPublishedDocs, loadPublishedReadme
  resource,    \* what is looked for: "version", "docs" or "readme"
  elmCache,    \* what the package cache holds of it
  registry,    \* how the package registry answers the request for it
  queried,     \* the sources asked so far, in order
  resolved,    \* the value found
  rpc,         \* the statement the call is at
  \* DocServer
  manifest,    \* this.manifest: the kind of manifest read last, or null
  clients,     \* the clients of this.wss whose readyState is OPEN
  tasks,       \* the calls of sendDiff, in the order they were made
  sent,        \* the 'diff' messages broadcast, in order
  \* calls one after the other
  history,     \* the calls that returned: routine, arguments and result
  calls,       \* the number of calls made
  \* ContentDiff.decoder of the UI
  wire,        \* the JSON value received, and where it comes from
  decoded,     \* the result of the decoder
  dpc,         \* whether the decoder has run
  \* ApiDiff.lookupItem of the UI
  lookupDiff,     \* the three arguments
  lookupModule,
  lookupName,
  lookupStatus,   \* the DiffStatus returned
  anyChanges,     \* what ApiDiff.hasChanges returned for lookupDiff
  \* downloadAndExtract of the on-demand preview
  workDir,        \* the files of the work directory of the commit
  tarPath,        \* whether the tarball of the commit is on disk
  invocations,    \* where each invocation is, and what it returned
  \* shouldRunDiff and the handler of the on-demand preview
  elmJson,        \* what reading elm.json of the work directory gives
  releases,       \* how the registry answers the request for releases.json
  runDiff,        \* what shouldRunDiff returned
  elmDiffRun,     \* whether buildDiff was called
  previewDiff,    \* the diff of the response
  \* the model of Page.Docs
  page,           \* author, project, version, diffData and contentDiff
  pushed          \* the Diff messages received on the port, in order

parseVars == <<output, lines, i, diff, mc, section, pc, result>>

buildVars == <<elmResult, built>>

contentVars ==
  <<publishedDocs, currentDocs, publishedReadme, currentReadme, contentDiff,
    hasAnyDiff, m, moduleDiff, moduleHasDiff, cpc, contentResult>>

lineVars == <<oldText, newText, changes, change, lineDiff, lpc, lineResult>>

resolveVars == <<resource, elmCache, registry, queried, resolved, rpc>>

serverVars == <<manifest, clients, tasks, sent>>

callVars == <<history, calls>>

decodeVars == <<wire, decoded, dpc>>

lookupVars ==
  <<lookupDiff, lookupModule, lookupName, lookupStatus, anyChanges>>

extractVars == <<workDir, tarPath, invocations>>

previewVars == <<elmJson, releases, runDiff, elmDiffRun, previewDiff>>

pageVars == <<page, pushed>>

\* The variables of the on-demand preview and of the page.
laterVars == <<extractVars, previewVars, pageVars>>

\* The variables of the routines written after computeContentDiff.
restVars ==
  <<lineVars, resolveVars, serverVars, callVars, decodeVars, lookupVars,
    laterVars>>

\* What the routines of the UI leave alone.
outsideDecode ==
  <<parseVars, buildVars, contentVars, lineVars, resolveVars, serverVars,
    callVars, lookupVars, laterVars>>

outsideLookup ==
  <<parseVars, buildVars, contentVars, lineVars, resolveVars, serverVars,
    callVars, decodeVars, laterVars>>

\* What a call of computeLineDiff leaves alone.
outsideLine ==
  <<parseVars, buildVars, contentVars, resolveVars, serverVars, callVars,
    decodeVars, lookupVars, laterVars>>

\* What a call of one of the three loaders leaves alone.
outsideResolve ==
  <<parseVars, buildVars, contentVars, lineVars, serverVars, callVars,
    decodeVars, lookupVars, laterVars>>

\* What the server leaves alone.
outsideServer ==
  <<parseVars, buildVars, contentVars, lineVars, resolveVars, callVars,
    decodeVars, lookupVars, laterVars>>

\* What a call of downloadAndExtract leaves alone.
outsideExtract ==
  <<parseVars, buildVars, contentVars, lineVars, resolveVars, serverVars,
    callVars, decodeVars, lookupVars, previewVars, pageVars>>

\* What the handler of the on-demand preview leaves alone.
outsidePreview ==
  <<parseVars, buildVars, contentVars, lineVars, resolveVars, serverVars,
    callVars, decodeVars, lookupVars, extractVars, pageVars>>

\* What the page leaves alone.
outsidePage ==
  <<parseVars, buildVars, contentVars, lineVars, resolveVars, serverVars,
    callVars, decodeVars, lookupVars, extractVars, previewVars>>

vars == <<parseVars, buildVars, contentVars, restVars>>

\* The value of lines[k] when k is not an index of lines; calling match on it
\* raises a TypeError.
Undefined == <<"undefined">>

\* lines[i] of the source (arrays count from 0, sequences from 1).
LineAt(k) == IF k < Len(lines) THEN lines[k + 1] ELSE Undefined

NoDiff ==
  [magnitude |-> <<>>, addedModules |-> <<>>, removedModules |-> <<>>,
   changedModules |-> <<>>]

NoModule == [name |-> <<>>, added |-> <<>>, changed |-> <<>>, removed |-> <<>>]

\* buildDiff is not running: parseDiffOutput was called on its own.
BuildIdle ==
  /\ elmResult = <<>>
  /\ built = "none"

\* computeContentDiff is not running.
ContentIdle ==
  /\ publishedDocs = <<>>
  /\ currentDocs = <<>>
  /\ publishedReadme = <<>>
  /\ currentReadme = <<>>
  /\ contentDiff = <<>>
  /\ hasAnyDiff = FALSE
  /\ m = 0
  /\ moduleDiff = <<>>
  /\ moduleHasDiff = FALSE
  /\ cpc = "idle"
  /\ contentResult = "none"

\* computeLineDiff is not running.
LineIdle ==
  /\ oldText = <<>>
  /\ newText = <<>>
  /\ changes = <<>>
  /\ change = 0
  /\ lineDiff = <<>>
  /\ lpc = "idle"
  /\ lineResult = "none"

\* parseDiffOutput is not running.
ParseIdle ==
  /\ output = <<>>
  /\ lines = <<>>
  /\ i = 0
  /\ diff = NoDiff
  /\ mc = NoModule
  /\ section = "null"
  /\ pc = "idle"
  /\ result = "none"

\* None of the three loaders is running.
ResolveIdle ==
  /\ resource = "none"
  /\ elmCache = <<>>
  /\ registry = <<>>
  /\ queried = <<>>
  /\ resolved = <<>>
  /\ rpc = "idle"

\* There is no server.
ServerIdle ==
  /\ manifest = "none"
  /\ clients = {}
  /\ tasks = <<>>
  /\ sent = <<>>

\* No call was made before.
NoHistory == history = {} /\ calls = 0

\* The routines of the UI are not running.
DecodeIdle ==
  /\ wire = <<>>
  /\ decoded = <<>>
  /\ dpc = "idle"

LookupIdle ==
  /\ lookupDiff = <<>>
  /\ lookupModule = <<>>
  /\ lookupName = <<>>
  /\ lookupStatus = "none"
  /\ anyChanges = "none"

\* downloadAndExtract was not called.
ExtractIdle ==
  /\ workDir = {}
  /\ tarPath = FALSE
  /\ invocations = <<>>

\* The handler of the on-demand preview is not running.
PreviewIdle ==
  /\ elmJson = <<>>
  /\ releases = <<>>
  /\ runDiff = "none"
  /\ elmDiffRun = FALSE
  /\ previewDiff = "none"

\* There is no page.
PageIdle ==
  /\ page = <<>>
  /\ pushed = <<>>

\* None of the routines written after computeContentDiff is running.
RestIdle ==
  /\ LineIdle /\ ResolveIdle /\ ServerIdle /\ NoHistory /\ DecodeIdle /\ LookupIdle
  /\ ExtractIdle /\ PreviewIdle /\ PageIdle

\* Nothing but the routine g is running.
OthersIdle(g) ==
  /\ ParseIdle
  /\ BuildIdle
  /\ ContentIdle
  /\ g = "line" \/ LineIdle
  /\ g = "resolve" \/ ResolveIdle
  /\ g = "server" \/ ServerIdle
  /\ NoHistory
  /\ g = "decode" \/ DecodeIdle
  /\ g = "lookup" \/ LookupIdle
  /\ g = "extract" \/ ExtractIdle
  /\ g = "preview" \/ PreviewIdle
  /\ g = "page" \/ PageIdle

\* The state when parseDiffOutput is called with a text made of one of the
\* preambles and of lines of pool.
Called(preambles, pool) ==
  /\ \E p \in preambles : \E n \in 0..MaxBodyLines : \E b \in [1..n -> pool] :
       output = Join(p \o b)
  /\ lines = <<>>
  /\ i = 0
  /\ diff = NoDiff
  /\ mc = NoModule
  /\ section = "null"
  /\ pc = "start"
  /\ result = "pending"
  /\ BuildIdle
  /\ ContentIdle
  /\ RestIdle

Init == Called(Announcement, ReportLines)

InitFirstLine == Called(FirstLines, ScanLines)

InitItems == Called(ModulePreamble, BodyLines)

InitScan == Called(ShortFirstLines, BannerLines)

\* Lines 578-596: split the text, match the announcement on the first line
\* (which raises were there no first line), build the empty ApiDiff and set
\* i to 1.
ParseStart ==
  /\ pc = "start"
  /\ \E ls \in {Split(output)} :
       \E magnitudeMatch \in {IF Len(ls) = 0 THEN NoMatch ELSE MagnitudeMatch(ls[1])} :
         /\ lines' = ls
         /\ IF Len(ls) = 0
            THEN /\ result' = "raised"
                 /\ pc' = "done"
                 /\ UNCHANGED <<i, diff>>
            ELSE IF magnitudeMatch = NoMatch
            THEN /\ result' = "null"
                 /\ pc' = "done"
                 /\ UNCHANGED <<i, diff>>
            ELSE /\ diff' = [magnitude |-> magnitudeMatch, addedModules |-> <<>>,
                             removedModules |-> <<>>, changedModules |-> <<>>]
                 /\ i' = 1
                 /\ pc' = "scan"
                 /\ UNCHANGED result
  /\ UNCHANGED <<output, mc, section, buildVars, contentVars, restVars>>

\* The outer loop running while i <= lines.length.
InScanPastEnd == pc = "scan" /\ i <= Len(lines)

\* Line 597: the condition of the outer loop.
InScan == pc = "scan" /\ i < Len(lines)

\* Lines 599-601: the first match of an iteration, which raises when lines[i]
\* is undefined; an ADDED MODULES banner opens the added-modules body.
ScanAddedHeader ==
  /\ InScan
  /\ IF LineAt(i) = Undefined
     THEN /\ result' = "raised"
          /\ pc' = "done"
          /\ UNCHANGED i
     ELSE /\ IsAddedModulesHeader(LineAt(i))
          /\ i' = i + 1
          /\ pc' = "addedBody"
          /\ UNCHANGED result
  /\ UNCHANGED <<output, lines, diff, mc, section, buildVars, contentVars, restVars>>

\* Lines 606-607: a REMOVED MODULES banner opens the removed-modules body.
ScanRemovedHeader ==
  /\ InScan
  /\ LineAt(i) # Undefined
  /\ ~IsAddedModulesHeader(LineAt(i))
  /\ IsRemovedModulesHeader(LineAt(i))
  /\ i' = i + 1
  /\ pc' = "removedBody"
  /\ UNCHANGED <<output, lines, diff, mc, section, result, buildVars, contentVars, restVars>>

\* The per-module branch tested before the two branches of the module
\* lists.
ScanModuleBannerFirst ==
  /\ InScan
  /\ LineAt(i) # Undefined
  /\ IsModuleBanner(LineAt(i))
  /\ LET moduleMatch == ModuleBannerName(LineAt(i))
     IN  IF moduleMatch # NoMatch
         THEN /\ mc' = [name |-> moduleMatch, added |-> <<>>, changed |-> <<>>,
                        removed |-> <<>>]
              /\ section' = "null"
              /\ pc' = "moduleBody"
         ELSE UNCHANGED <<mc, section, pc>>
  /\ i' = i + 1
  /\ UNCHANGED <<output, lines, diff, result, buildVars, contentVars, restVars>>

\* Lines 612-622 and 654-656: a per-module banner starts a record with no
\* active subsection; were the second match to fail, the line is skipped.
ScanModuleBanner ==
  /\ InScan
  /\ LineAt(i) # Undefined
  /\ ~IsAddedModulesHeader(LineAt(i))
  /\ ~IsRemovedModulesHeader(LineAt(i))
  /\ IsModuleBanner(LineAt(i))
  /\ LET moduleMatch == ModuleBannerName(LineAt(i))
     IN  IF moduleMatch # NoMatch
         THEN /\ mc' = [name |-> moduleMatch, added |-> <<>>, changed |-> <<>>,
                        removed |-> <<>>]
              /\ section' = "null"
              /\ pc' = "moduleBody"
         ELSE UNCHANGED <<mc, section, pc>>
  /\ i' = i + 1
  /\ UNCHANGED <<output, lines, diff, result, buildVars, contentVars, restVars>>

\* The last branch of the outer loop without its i++.
ScanSkipStuck ==
  /\ InScan
  /\ LineAt(i) # Undefined
  /\ ~IsAddedModulesHeader(LineAt(i))
  /\ ~IsRemovedModulesHeader(LineAt(i))
  /\ ~IsModuleBanner(LineAt(i))
  /\ UNCHANGED vars

\* Lines 657-659: any other line is skipped.
ScanSkip ==
  /\ InScan
  /\ LineAt(i) # Undefined
  /\ ~IsAddedModulesHeader(LineAt(i))
  /\ ~IsRemovedModulesHeader(LineAt(i))
  /\ ~IsModuleBanner(LineAt(i))
  /\ i' = i + 1
  /\ UNCHANGED <<output, lines, diff, mc, section, pc, result, buildVars, contentVars, restVars>>

\* Lines 602 and 608: the condition of the two module-list loops, on the
\* current line.
ModuleListContinues(line) == IsIndentedEntry(line)

\* Lines 602-605: one iteration of the added-modules loop.
AddedBodyStep ==
  /\ pc = "addedBody"
  /\ i < Len(lines)
  /\ ModuleListContinues(LineAt(i))
  /\ diff' = [diff EXCEPT !.addedModules = Append(@, Trim(LineAt(i)))]
  /\ i' = i + 1
  /\ UNCHANGED <<output, lines, mc, section, pc, result, buildVars, contentVars, restVars>>

\* Line 602: the added-modules loop ends; the line it stopped at is left to
\* the outer loop.
AddedBodyExit ==
  /\ pc = "addedBody"
  /\ ~(i < Len(lines) /\ ModuleListContinues(LineAt(i)))
  /\ pc' = "scan"
  /\ UNCHANGED <<output, lines, i, diff, mc, section, result, buildVars, contentVars, restVars>>

\* Lines 608-611: one iteration of the removed-modules loop.
RemovedBodyStep ==
  /\ pc = "removedBody"
  /\ i < Len(lines)
  /\ ModuleListContinues(LineAt(i))
  /\ diff' = [diff EXCEPT !.removedModules = Append(@, Trim(LineAt(i)))]
  /\ i' = i + 1
  /\ UNCHANGED <<output, lines, mc, section, pc, result, buildVars, contentVars, restVars>>

\* Line 608: the removed-modules loop ends.
RemovedBodyExit ==
  /\ pc = "removedBody"
  /\ ~(i < Len(lines) /\ ModuleListContinues(LineAt(i)))
  /\ pc' = "scan"
  /\ UNCHANGED <<output, lines, i, diff, mc, section, result, buildVars, contentVars, restVars>>

\* Array.prototype.includes
Includes(list, x) == \E k \in 1..Len(list) : list[k] = x

\* list.push(itemName) without the test of includes.
PushAlways(list, itemName) == Append(list, itemName)

\* Lines 640-648: if (!list.includes(itemName)) list.push(itemName)
PushIfAbsent(list, itemName) ==
  IF Includes(list, itemName) THEN list ELSE Append(list, itemName)

\* The module-body loop written like the module-list loops, which stop at
\* the first line that is not indented text.
ModuleBodyUntilBlank(line) == IsIndentedEntry(line)

\* Line 623: the condition of the module-body loop, on the current line.
ModuleBodyContinues(line) == ~IsDashBanner(line)

\* Lines 625-630: the subsection a trimmed body line switches to, "null"
\* when it is no subsection header.
SectionHeader(sectionLine) ==
  IF sectionLine = T_AddedColon THEN "added"
  ELSE IF sectionLine = T_ChangedColon THEN "changed"
  ELSE IF sectionLine = T_RemovedColon THEN "removed"
  ELSE "null"

\* The record when every non-blank line under a subsection is taken as an
\* item, a line of another shape under its whole clean text.
RecordItemAnyLine(rec, sect, sectionLine) ==
  IF sect # "null" /\ Len(sectionLine) > 0
  THEN LET cleanLine == StripMarker(sectionLine)
           nameMatch == ItemNameMatch(cleanLine)
           itemName == IF nameMatch = NoMatch THEN cleanLine ELSE nameMatch
       IN  IF sect = "changed"
           THEN [rec EXCEPT !.changed = PushIfAbsent(@, itemName)]
           ELSE IF sect = "added"
                THEN [rec EXCEPT !.added = PushIfAbsent(@, itemName)]
           ELSE [rec EXCEPT !.removed = PushIfAbsent(@, itemName)]
  ELSE rec

\* The record when the items met before the first subsection header of a
\* module body are taken as added ones.
RecordItemOfNoSection(rec, sect, sectionLine) ==
  IF Len(sectionLine) > 0
  THEN LET cleanLine == StripMarker(sectionLine)
           nameMatch == ItemNameMatch(cleanLine)
       IN  IF nameMatch = NoMatch THEN rec
           ELSE IF sect = "changed"
                THEN [rec EXCEPT !.changed = PushIfAbsent(@, nameMatch)]
           ELSE IF sect = "removed"
                THEN [rec EXCEPT !.removed = PushIfAbsent(@, nameMatch)]
           ELSE [rec EXCEPT !.added = PushIfAbsent(@, nameMatch)]
  ELSE rec

\* Lines 631-650: the record after a body line that is no subsection header.
RecordItem(rec, sect, sectionLine) ==
  IF sect # "null" /\ Len(sectionLine) > 0
  THEN LET cleanLine == StripMarker(sectionLine)
           nameMatch == ItemNameMatch(cleanLine)
       IN  IF nameMatch = NoMatch THEN rec
           ELSE IF sect = "changed"
                THEN [rec EXCEPT !.changed = PushIfAbsent(@, nameMatch)]
           ELSE IF sect = "added"
                THEN [rec EXCEPT !.added = PushIfAbsent(@, nameMatch)]
           ELSE [rec EXCEPT !.removed = PushIfAbsent(@, nameMatch)]
  ELSE rec

\* Lines 623-652: one iteration of the module-body loop.
ModuleBodyStep ==
  /\ pc = "moduleBody"
  /\ i < Len(lines)
  /\ ModuleBodyContinues(LineAt(i))
  /\ LET sectionLine == Trim(LineAt(i))
     IN  IF SectionHeader(sectionLine) # "null"
         THEN /\ section' = SectionHeader(sectionLine)
              /\ UNCHANGED mc
         ELSE /\ mc' = RecordItem(mc, section, sectionLine)
              /\ UNCHANGED section
  /\ i' = i + 1
  /\ UNCHANGED <<output, lines, diff, pc, result, buildVars, contentVars, restVars>>

\* The end of the module-body loop, stepping over the line it stopped at.
ModuleBodyExitConsuming ==
  /\ pc = "moduleBody"
  /\ ~(i < Len(lines) /\ ModuleBodyContinues(LineAt(i)))
  /\ diff' = [diff EXCEPT !.changedModules = Append(@, mc)]
  /\ mc' = NoModule
  /\ section' = "null"
  /\ pc' = "scan"
  /\ i' = i + 1
  /\ UNCHANGED <<output, lines, result, buildVars, contentVars, restVars>>

\* Lines 623 and 653: the module-body loop ends, the record is pushed and
\* the line it stopped at is left to the outer loop; mc and section go out
\* of scope.
ModuleBodyExit ==
  /\ pc = "moduleBody"
  /\ ~(i < Len(lines) /\ ModuleBodyContinues(LineAt(i)))
  /\ diff' = [diff EXCEPT !.changedModules = Append(@, mc)]
  /\ mc' = NoModule
  /\ section' = "null"
  /\ pc' = "scan"
  /\ UNCHANGED <<output, lines, i, result, buildVars, contentVars, restVars>>

\* Lines 597 and 662: the outer loop ends and the ApiDiff is returned.
ParseReturn ==
  /\ pc = "scan"
  /\ ~(i < Len(lines))
  /\ result' = "diff"
  /\ pc' = "done"
  /\ UNCHANGED <<output, lines, i, diff, mc, section, buildVars, contentVars, restVars>>

Next ==
  \/ ParseStart
  \/ ScanAddedHeader
  \/ ScanRemovedHeader
  \/ ScanModuleBanner
  \/ ScanSkip
  \/ AddedBodyStep
  \/ AddedBodyExit
  \/ RemovedBodyStep
  \/ RemovedBodyExit
  \/ ModuleBodyStep
  \/ ModuleBodyExit
  \/ ParseReturn

Spec == Init /\ [][Next]_vars

SpecFirstLine == InitFirstLine /\ [][Next]_vars

SpecItems == InitItems /\ [][Next]_vars

\* Reports made of banners, subsection headers and items.
InitSections == Called(Announcement, SectionLines)

SpecSections == InitSections /\ [][Next]_vars

\* The call is synchronous: once started it runs until it returns.
SpecFair == InitScan /\ [][Next]_vars /\ WF_vars(Next)

(***************************************************************************)
(* buildDiff: run "elm diff" and parse what it printed.                    *)
(***************************************************************************)

\* What elm(["diff"]) can do: throw, or return a result with an error or
\* without, with an exit status (none when a signal ended the command) and
\* with the text it printed.
ElmOutcomes ==
  {[threw |-> TRUE, error |-> FALSE, status |-> <<>>, stdout |-> <<>>]}
    \cup [threw : {FALSE}, error : BOOLEAN, status : {<<>>, <<0>>, <<1>>},
          stdout : {<<>>}]

\* The state when buildDiff is called, the command printing a text made of
\* one of the preambles and of lines of pool.
BuildCalled(preambles, pool) ==
  /\ \E p \in preambles : \E n \in 0..MaxBodyLines : \E b \in [1..n -> pool] :
       \E r \in ElmOutcomes :
         elmResult = IF r.threw THEN r ELSE [r EXCEPT !.stdout = Join(p \o b)]
  /\ built = "pending"
  /\ output = <<>>
  /\ lines = <<>>
  /\ i = 0
  /\ diff = NoDiff
  /\ mc = NoModule
  /\ section = "null"
  /\ pc = "buildDiff"
  /\ result = "pending"
  /\ ContentIdle
  /\ RestIdle

InitBuild == BuildCalled(ShortFirstLines, BannerLines)

\* The test of line 668 without its status half.
ElmFailedErrorOnly(r) == r.error

\* Line 668: result.error || result.status !== 0
ElmFailed(r) == r.error \/ r.status # <<0>>

\* Lines 666-671 and 672-674: null when the command threw or failed,
\* otherwise parseDiffOutput is called with what it printed.
BuildDiff ==
  /\ pc = "buildDiff"
  /\ IF elmResult.threw \/ ElmFailed(elmResult)
     THEN /\ built' = "null"
          /\ pc' = "returned"
          /\ UNCHANGED output
     ELSE /\ output' = elmResult.stdout
          /\ pc' = "start"
          /\ UNCHANGED built
  /\ UNCHANGED <<lines, i, diff, mc, section, result, elmResult, contentVars, restVars>>

\* Lines 671-674: buildDiff returns what parseDiffOutput returned, null had
\* it raised.
BuildReturn ==
  /\ pc = "done"
  /\ built = "pending"
  /\ built' = IF result = "raised" THEN "null" ELSE result
  /\ pc' = "returned"
  /\ UNCHANGED <<output, lines, i, diff, mc, section, result, elmResult, contentVars, restVars>>

NextBuild ==
  \/ BuildDiff
  \/ Next
  \/ BuildReturn

SpecBuild == InitBuild /\ [][NextBuild]_vars

(***************************************************************************)
(* computeLineDiff: the line diff of two texts.                            *)
(***************************************************************************)

\* An optional value: absent (null, or a property that is not set) or
\* present.
Absent == <<>>

Some(x) == <<x>>

\* The sequences of list one after the other.
RECURSIVE Concat(_)
Concat(list) == IF Len(list) = 0 THEN <<>> ELSE list[1] \o Concat(Tail(list))

\* Array.prototype.join(sep)
RECURSIVE JoinWith(_, _)
JoinWith(list, sep) ==
  IF Len(list) = 0 THEN <<>>
  ELSE IF Len(list) = 1 THEN list[1]
  ELSE list[1] \o sep \o JoinWith(Tail(list), sep)

\* The tokens diffLines compares: the lines of the text, each with the line
\* break that ends it; a text that ends with a line break has no empty last
\* token and the empty text has no token.
Tokenize(text) ==
  LET pieces == Split(text)
      n == Len(pieces)
      count == IF pieces[n] = <<>> THEN n - 1 ELSE n
  IN  [k \in 1..count |-> IF k < n THEN pieces[k] \o <<NL>> ELSE pieces[k]]

\* Length of the longest common subsequence of a from x and of b from y.
RECURSIVE LcsLength(_, _, _, _)
LcsLength(a, b, x, y) ==
  IF x > Len(a) \/ y > Len(b) THEN 0
  ELSE IF a[x] = b[y] THEN 1 + LcsLength(a, b, x + 1, y + 1)
  ELSE LET skipOld == LcsLength(a, b, x + 1, y)
           skipNew == LcsLength(a, b, x, y + 1)
       IN  IF skipOld >= skipNew THEN skipOld ELSE skipNew

\* A shortest edit script from the tokens of a from x to those of b from y,
\* as pairs of status and token: a common token is kept, and of two tokens
\* that differ the old one is removed before the new one is added.
RECURSIVE EditScript(_, _, _, _)
EditScript(a, b, x, y) ==
  IF x > Len(a) THEN [k \in 1..(Len(b) - y + 1) |-> <<1, b[y + k - 1]>>]
  ELSE IF y > Len(b) THEN [k \in 1..(Len(a) - x + 1) |-> <<-1, a[x + k - 1]>>]
  ELSE IF a[x] = b[y] THEN <<<<0, a[x]>>>> \o EditScript(a, b, x + 1, y + 1)
  ELSE IF LcsLength(a, b, x + 1, y) >= LcsLength(a, b, x, y + 1)
       THEN <<<<-1, a[x]>>>> \o EditScript(a, b, x + 1, y)
       ELSE <<<<1, b[y]>>>> \o EditScript(a, b, x, y + 1)

\* The change objects of an edit script: each run of tokens of one status is
\* one block, whose value is the text of the run.
Blocks(script) ==
  LET starts == Ascending({k \in 1..Len(script) :
                             k = 1 \/ script[k][1] # script[k - 1][1]})
      last(j) == IF j = Len(starts) THEN Len(script) ELSE starts[j + 1] - 1
  IN  [j \in 1..Len(starts) |->
         [added |-> script[starts[j]][1] = 1,
          removed |-> script[starts[j]][1] = -1,
          value |-> Concat([k \in 1..(last(j) - starts[j] + 1) |->
                              script[starts[j] + k - 1][2]])]]

\* diffLines of the package diff, with its default options.
diffLines(oldStr, newStr) ==
  Blocks(EditScript(Tokenize(oldStr), Tokenize(newStr), 1, 1))

\* A value that keeps its final line break.
StripFinalNewlineNever(value) == value

\* Line 815: value.replace(/\n$/, "")
StripFinalNewline(value) ==
  IF Len(value) > 0 /\ value[Len(value)] = NL
  THEN SubSeq(value, 1, Len(value) - 1)
  ELSE value

\* Lines 814-818: the DiffLines of one change.
ChangeLines(c) ==
  LET status == IF c.added THEN 1 ELSE IF c.removed THEN -1 ELSE 0
      ls == Split(StripFinalNewline(c.value))
  IN  [k \in 1..Len(ls) |-> <<status, ls[k]>>]

\* A test that takes a change of any kind for a difference.
HasChangesAny(cs) == Len(cs) > 0

\* Line 809: changes.some((c) => c.added || c.removed)
HasChanges(cs) == \E k \in 1..Len(cs) : cs[k].added \/ cs[k].removed

\* Lines 807-821: absent when no change is added or removed, otherwise the
\* DiffLines of all the changes in order.
computeLineDiff(a, b) ==
  LET cs == diffLines(a, b)
  IN  IF ~HasChanges(cs) THEN Absent
      ELSE Some(Concat([k \in 1..Len(cs) |-> ChangeLines(cs[k])]))

(***************************************************************************)
(* The renderings of a published declaration and JSON.stringify.           *)
(***************************************************************************)
T_Colon == <<" ",":"," ">>
T_Equals == <<" ","="," ">>
T_Bar == <<" ","|"," ">>
T_Type == <<"t","y","p","e"," ">>
T_TypeAlias == <<"t","y","p","e"," ","a","l","i","a","s"," ">>

\* Lines 823-825
formatAnnotation(item) == item.name \o T_Colon \o item.type

\* The rendering of an alias that always has the space of the args.
formatAliasAnnotationAlwaysArgs(alias) ==
  T_TypeAlias \o alias.name \o <<" ">> \o JoinWith(alias.args, <<" ">>)
    \o T_Equals \o alias.type

\* Lines 827-830
formatAliasAnnotation(alias) ==
  LET argsStr == IF Len(alias.args) > 0
                 THEN <<" ">> \o JoinWith(alias.args, <<" ">>)
                 ELSE <<>>
  IN  T_TypeAlias \o alias.name \o argsStr \o T_Equals \o alias.type

\* Lines 832-839
formatUnionAnnotation(union) ==
  LET argsStr == IF Len(union.args) > 0
                 THEN <<" ">> \o JoinWith(union.args, <<" ">>)
                 ELSE <<>>
      ctor(case) == IF Len(case[2]) = 0 THEN case[1]
                    ELSE case[1] \o <<" ">> \o JoinWith(case[2], <<" ">>)
      ctors == JoinWith([k \in 1..Len(union.cases) |-> ctor(union.cases[k])],
                        T_Bar)
  IN  T_Type \o union.name \o argsStr \o T_Equals \o ctors

\* JSON.stringify of a string: between double quotes, with a backslash
\* before every double quote and every backslash.
JsonString(str) ==
  <<"\"">>
    \o Concat([k \in 1..Len(str) |->
                 IF str[k] \in {"\"", "\\"} THEN <<"\\", str[k]>>
                 ELSE <<str[k]>>])
    \o <<"\"">>

\* JSON.stringify of an array whose elements are already rendered.
JsonArray(rendered) == <<"[">> \o JoinWith(rendered, <<",">>) \o <<"]">>

\* JSON.stringify(args): an array of strings.
JsonStrings(list) == JsonArray([k \in 1..Len(list) |-> JsonString(list[k])])

\* JSON.stringify(cases): an array of pairs of a name and of an array of
\* strings.
JsonCases(cases) ==
  JsonArray([k \in 1..Len(cases) |->
               JsonArray(<<JsonString(cases[k][1]), JsonStrings(cases[k][2])>>)])

(***************************************************************************)
(* computeContentDiff: the inputs.                                         *)
(***************************************************************************)
MaxModules == 2
MaxEntities == 2

S_old == <<"o","l","d">>
S_new == <<"n","e","w">>
S_Int == <<"I","n","t">>
S_String == <<"S","t","r","i","n","g">>
S_foo == <<"f","o","o">>
S_bar == <<"b","a","r">>

Value(name, comment, type) == [name |-> name, comment |-> comment, type |-> type]

Alias(name, comment, args, type) ==
  [name |-> name, comment |-> comment, args |-> args, type |-> type]

Union(name, comment, args, cases) ==
  [name |-> name, comment |-> comment, args |-> args, cases |-> cases]

DocsModule(name, values, binops, aliases, unions) ==
  [name |-> name, comment |-> <<>>, values |-> values, binops |-> binops,
   aliases |-> aliases, unions |-> unions]

\* foo with each type and each comment, and bar.
ValuePool ==
  {Value(S_foo, c, t) : c \in {S_old, S_new}, t \in {S_Int, S_String}}
    \cup {Value(S_bar, S_old, S_Int)}

\* The operator + with each type and each comment.
BinopPool ==
  {Value(<<"+">>, c, t) : c \in {S_old, S_new}, t \in {S_Int, S_String}}

\* The alias R with and without type parameters, with each type and a new
\* comment, and the alias S.
AliasPool ==
  {Alias(<<"R">>, S_old, <<>>, S_Int),
   Alias(<<"R">>, S_old, <<>>, S_String),
   Alias(<<"R">>, S_old, <<<<"a">>>>, S_Int),
   Alias(<<"R">>, S_old, <<<<"a">>, <<"b">>>>, S_Int),
   Alias(<<"R">>, S_new, <<>>, S_Int),
   Alias(<<"R">>, S_new, <<<<"a">>>>, S_String),
   Alias(<<"S">>, S_old, <<>>, S_Int)}

\* The union U with one or two constructors in each order, with another
\* constructor, with and without an argument, with a type parameter and
\* with a new comment, and the union V.
UnionPool ==
  {Union(<<"U">>, S_old, <<>>, <<<<<<"X">>, <<>>>>>>),
   Union(<<"U">>, S_old, <<>>, <<<<<<"X">>, <<>>>>, <<<<"Y">>, <<>>>>>>),
   Union(<<"U">>, S_old, <<>>, <<<<<<"Y">>, <<>>>>, <<<<"X">>, <<>>>>>>),
   Union(<<"U">>, S_old, <<>>, <<<<<<"Z">>, <<>>>>>>),
   Union(<<"U">>, S_old, <<>>, <<<<<<"X">>, <<S_Int>>>>>>),
   Union(<<"U">>, S_old, <<>>, <<<<<<"X">>, <<S_Int, <<"a">>>>>>>>),
   Union(<<"U">>, S_old, <<<<"a">>>>, <<<<<<"X">>, <<>>>>>>),
   Union(<<"U">>, S_new, <<>>, <<<<<<"X">>, <<>>>>>>),
   Union(<<"V">>, S_old, <<>>, <<<<<<"W">>, <<>>>>>>)}

\* Names are unique within a list (the compiler guarantees it).
DistinctNames(list) ==
  \A j, k \in 1..Len(list) : j # k => list[j].name # list[k].name

\* The lists of at most max elements of pool, with distinct names.
Lists(pool, max) ==
  {list \in UNION {[1..n -> pool] : n \in 0..max} : DistinctNames(list)}

BaseValues == <<Value(S_foo, S_old, S_Int)>>
BaseBinops == <<Value(<<"+">>, S_old, S_Int)>>
BaseAliases == <<Alias(<<"R">>, S_old, <<>>, S_Int)>>
BaseUnions == <<Union(<<"U">>, S_old, <<>>, <<<<<<"X">>, <<>>>>>>)>>

\* The module M, M with a change in each kind, the module N, N with a new
\* comment on its value, and the module O.
ModulePool ==
  {DocsModule(<<"M">>, BaseValues, BaseBinops, BaseAliases, BaseUnions),
   DocsModule(<<"M">>, <<Value(S_foo, S_new, S_String)>>,
              <<Value(<<"+">>, S_old, S_String)>>,
              <<Alias(<<"R">>, S_new, <<<<"a">>>>, S_String)>>,
              <<Union(<<"U">>, S_old, <<>>, <<<<<<"Z">>, <<>>>>>>)>>),
   DocsModule(<<"N">>, BaseValues, BaseBinops, BaseAliases, BaseUnions),
   DocsModule(<<"N">>, <<Value(S_foo, S_new, S_Int)>>, BaseBinops,
              BaseAliases, BaseUnions),
   DocsModule(<<"O">>, <<Value(S_bar, S_new, S_String)>>, <<>>, <<>>, <<>>)}

\* A snapshot that could not be loaded, and the snapshots of at most
\* MaxModules modules.
Snapshots == {Absent} \cup {Some(list) : list \in Lists(ModulePool, MaxModules)}

S_readme1 == <<"#"," ","P","\n","t","e","x","t","\n">>
S_readme2 == <<"#"," ","P","\n","\n","t","e","x","t","\n","m","o","r","e">>

Readmes == {Absent, Some(S_readme1), Some(S_readme2)}

(***************************************************************************)
(* computeContentDiff: the state machine.                                  *)
(***************************************************************************)

\* The state when computeContentDiff is called with the four arguments.
ContentCalled(pd, cd, pr, cr) ==
  /\ publishedDocs = pd
  /\ currentDocs = cd
  /\ publishedReadme = pr
  /\ currentReadme = cr
  /\ contentDiff = <<>>
  /\ hasAnyDiff = FALSE
  /\ m = 0
  /\ moduleDiff = <<>>
  /\ moduleHasDiff = FALSE
  /\ cpc = "start"
  /\ contentResult = "pending"
  /\ output = <<>>
  /\ lines = <<>>
  /\ i = 0
  /\ diff = NoDiff
  /\ mc = NoModule
  /\ section = "null"
  /\ pc = "idle"
  /\ result = "none"
  /\ BuildIdle
  /\ RestIdle

\* The module M with the given entities, alone in its snapshot.
OnlyM(values, binops, aliases, unions) ==
  Some(<<DocsModule(<<"M">>, values, binops, aliases, unions)>>)

\* Calls with every pair of snapshots and of READMEs, and calls with the
\* module M on both sides where the entities of one kind vary.
InitContent ==
  \/ \E pd \in Snapshots, cd \in Snapshots, pr \in Readmes, cr \in Readmes :
       ContentCalled(pd, cd, pr, cr)
  \/ \E pl \in Lists(ValuePool, MaxEntities), cl \in Lists(ValuePool, MaxEntities) :
       ContentCalled(OnlyM(pl, BaseBinops, BaseAliases, BaseUnions),
                     OnlyM(cl, BaseBinops, BaseAliases, BaseUnions),
                     Absent, Absent)
  \/ \E pl \in Lists(BinopPool, MaxEntities), cl \in Lists(BinopPool, MaxEntities) :
       ContentCalled(OnlyM(BaseValues, pl, BaseAliases, BaseUnions),
                     OnlyM(BaseValues, cl, BaseAliases, BaseUnions),
                     Absent, Absent)
  \/ \E pl \in Lists(AliasPool, MaxEntities), cl \in Lists(AliasPool, MaxEntities) :
       ContentCalled(OnlyM(BaseValues, BaseBinops, pl, BaseUnions),
                     OnlyM(BaseValues, BaseBinops, cl, BaseUnions),
                     Absent, Absent)
  \/ \E pl \in Lists(UnionPool, MaxEntities), cl \in Lists(UnionPool, MaxEntities) :
       ContentCalled(OnlyM(BaseValues, BaseBinops, BaseAliases, pl),
                     OnlyM(BaseValues, BaseBinops, BaseAliases, cl),
                     Absent, Absent)

\* The modules of a snapshot, none for a snapshot that is absent.
ModulesOf(docs) == IF docs = Absent THEN <<>> ELSE docs[1]

\* The test of line 847 when only a call without any snapshot returns null.
SnapshotMissingBoth(pd, cd) == pd = Absent /\ cd = Absent

\* Line 847: !publishedDocs || !currentDocs
SnapshotMissing(pd, cd) == pd = Absent \/ cd = Absent

\* Lines 847-855: null when a snapshot is absent, otherwise an empty
\* ContentDiff; the map of lines 849-852 is PublishedByName.
ContentStart ==
  /\ cpc = "start"
  /\ IF SnapshotMissing(publishedDocs, currentDocs)
     THEN /\ contentResult' = "null"
          /\ cpc' = "done"
          /\ UNCHANGED <<contentDiff, m>>
     ELSE /\ contentDiff' = [modules |-> <<>>, readmeDiff |-> Absent]
          /\ m' = 1
          /\ cpc' = "module"
          /\ UNCHANGED contentResult
  /\ UNCHANGED <<publishedDocs, currentDocs, publishedReadme, currentReadme,
                 hasAnyDiff, moduleDiff, moduleHasDiff, parseVars, buildVars, restVars>>

\* currentMod of line 857.
CurrentMod == ModulesOf(currentDocs)[m]

\* The lookup of a module that, for a name the published snapshot lacks,
\* gives its first module.
PublishedByNameOrFirst(name) ==
  LET mods == ModulesOf(publishedDocs)
      at == {k \in 1..Len(mods) : mods[k].name = name}
  IN  IF at # {} THEN Some(mods[CHOOSE k \in at : \A j \in at : j <= k])
      ELSE IF Len(mods) > 0 THEN Some(mods[1])
      ELSE Absent

\* Lines 849-852 and 858: publishedByName.get(name), the last published
\* module of that name, absent when there is none.
PublishedByName(name) ==
  LET mods == ModulesOf(publishedDocs)
      at == {k \in 1..Len(mods) : mods[k].name = name}
  IN  IF at = {} THEN Absent
      ELSE Some(mods[CHOOSE k \in at : \A j \in at : j <= k])

\* publishedMod of line 858, for a module that is in both snapshots.
PublishedMod == PublishedByName(CurrentMod.name)[1]

\* Lines 857-862: the next current module; one that is not published is
\* skipped.
ModuleEnter ==
  /\ cpc = "module"
  /\ m <= Len(ModulesOf(currentDocs))
  /\ IF PublishedByName(CurrentMod.name) = Absent
     THEN /\ m' = m + 1
          /\ UNCHANGED <<moduleDiff, moduleHasDiff, cpc>>
     ELSE /\ moduleDiff' = [items |-> <<>>]
          /\ moduleHasDiff' = FALSE
          /\ cpc' = "values"
          /\ UNCHANGED m
  /\ UNCHANGED <<publishedDocs, currentDocs, publishedReadme, currentReadme,
                 contentDiff, hasAnyDiff, contentResult, parseVars, buildVars, restVars>>

\* The lookup of an entity that, for a name the published list lacks, gives
\* its first entity.
FindOrFirst(list, name) ==
  LET at == {k \in 1..Len(list) : list[k].name = name}
  IN  IF at # {} THEN CHOOSE k \in at : \A j \in at : k <= j
      ELSE IF Len(list) > 0 THEN 1
      ELSE 0

\* Array.prototype.find((v) => v.name === name): the index of the first
\* entity of that name, 0 when there is none.
Find(list, name) ==
  LET at == {k \in 1..Len(list) : list[k].name = name}
  IN  IF at = {} THEN 0 ELSE CHOOSE k \in at : \A j \in at : k <= j

\* Lines 871-877: the commentDiff of an entity.
CommentDiff(published, current) ==
  IF published.comment # current.comment
  THEN computeLineDiff(published.comment, current.comment)
  ELSE Absent

\* The test of a value when a new comment counts as a new signature.
TypeDiffersOrComment(published, current) ==
  published.type # current.type \/ published.comment # current.comment

\* Lines 879 and 905: publishedVal.type !== currentVal.type
TypeDiffers(published, current) == published.type # current.type

\* The test of an alias without its args half.
AliasDiffersTypeOnly(published, current) == published.type # current.type

\* Line 931
AliasDiffers(published, current) ==
  \/ published.type # current.type
  \/ JsonStrings(published.args) # JsonStrings(current.args)

\* Line 957
UnionDiffers(published, current) ==
  \/ JsonCases(published.cases) # JsonCases(current.cases)
  \/ JsonStrings(published.args) # JsonStrings(current.args)

\* Lines 879-882, 905-908, 931-934 and 957-960: the oldAnnotation of an
\* entity of a kind.
OldAnnotation(kind, published, current) ==
  IF kind \in {"values", "binops"}
  THEN IF TypeDiffers(published, current)
       THEN Some(formatAnnotation(published)) ELSE Absent
  ELSE IF kind = "aliases"
  THEN IF AliasDiffers(published, current)
       THEN Some(formatAliasAnnotation(published)) ELSE Absent
  ELSE IF UnionDiffers(published, current)
       THEN Some(formatUnionAnnotation(published)) ELSE Absent

\* itemDiff of lines 868-882 (and of the three other loops).
ItemDiff(kind, published, current) ==
  [commentDiff |-> CommentDiff(published, current),
   oldAnnotation |-> OldAnnotation(kind, published, current)]

\* itemHasDiff
ItemHasDiff(item) == item.commentDiff # Absent \/ item.oldAnnotation # Absent

\* items[name] = item
Assign(items, name, item) == (name :> item) @@ items

\* Lines 864-888 (and 890-914, 916-940, 942-966): the items after the loop
\* over the current entities of a kind from the k-th on.
RECURSIVE LoopItems(_, _, _, _, _)
LoopItems(kind, publishedList, currentList, k, items) ==
  IF k > Len(currentList) THEN items
  ELSE LET current == currentList[k]
           found == Find(publishedList, current.name)
       IN  IF found = 0
           THEN LoopItems(kind, publishedList, currentList, k + 1, items)
           ELSE LET itemDiff == ItemDiff(kind, publishedList[found], current)
                IN  LoopItems(kind, publishedList, currentList, k + 1,
                              IF ItemHasDiff(itemDiff)
                              THEN Assign(items, current.name, itemDiff)
                              ELSE items)

\* moduleHasDiff after the loop over the entities of a kind.
LoopHasDiff(kind, publishedList, currentList) ==
  \E k \in 1..Len(currentList) :
    LET found == Find(publishedList, currentList[k].name)
    IN  /\ found # 0
        /\ ItemHasDiff(ItemDiff(kind, publishedList[found], currentList[k]))

\* One of the four loops, which leaves the call at the next one.
EntityLoop(kind, publishedList, currentList, next) ==
  /\ cpc = kind
  /\ moduleDiff' = [items |-> LoopItems(kind, publishedList, currentList, 1,
                                        moduleDiff.items)]
  /\ moduleHasDiff' =
       (moduleHasDiff \/ LoopHasDiff(kind, publishedList, currentList))
  /\ cpc' = next
  /\ UNCHANGED <<publishedDocs, currentDocs, publishedReadme, currentReadme,
                 contentDiff, hasAnyDiff, m, contentResult, parseVars, buildVars, restVars>>

\* Lines 864-888
ValuesLoop ==
  /\ cpc = "values"
  /\ EntityLoop("values", PublishedMod.values, CurrentMod.values, "binops")

\* Lines 890-914
BinopsLoop ==
  /\ cpc = "binops"
  /\ EntityLoop("binops", PublishedMod.binops, CurrentMod.binops, "aliases")

\* Lines 916-940
AliasesLoop ==
  /\ cpc = "aliases"
  /\ EntityLoop("aliases", PublishedMod.aliases, CurrentMod.aliases, "unions")

\* Lines 942-966
UnionsLoop ==
  /\ cpc = "unions"
  /\ EntityLoop("unions", PublishedMod.unions, CurrentMod.unions, "push")

\* The end of an iteration that records the module whatever it found.
ModulePushAlways ==
  /\ cpc = "push"
  /\ contentDiff' = [contentDiff EXCEPT
                       !.modules = Assign(@, CurrentMod.name, moduleDiff)]
  /\ hasAnyDiff' = TRUE
  /\ m' = m + 1
  /\ cpc' = "module"
  /\ UNCHANGED <<publishedDocs, currentDocs, publishedReadme, currentReadme,
                 moduleDiff, moduleHasDiff, contentResult, parseVars, buildVars, restVars>>

\* Lines 968-972: a module that has an item is recorded under its name, and
\* the loop goes to the next module.
ModulePush ==
  /\ cpc = "push"
  /\ IF moduleHasDiff
     THEN /\ contentDiff' = [contentDiff EXCEPT
                               !.modules = Assign(@, CurrentMod.name, moduleDiff)]
          /\ hasAnyDiff' = TRUE
     ELSE UNCHANGED <<contentDiff, hasAnyDiff>>
  /\ m' = m + 1
  /\ cpc' = "module"
  /\ UNCHANGED <<publishedDocs, currentDocs, publishedReadme, currentReadme,
                 moduleDiff, moduleHasDiff, contentResult, parseVars, buildVars, restVars>>

\* The README comparison left out.
ReadmeDiffSkipped(pr, cr) == Absent

\* Lines 974-975: the line diff of the two READMEs when both are there and
\* differ.
ReadmeDiff(pr, cr) ==
  IF pr # Absent /\ cr # Absent /\ pr[1] # cr[1]
  THEN computeLineDiff(pr[1], cr[1])
  ELSE Absent

\* The end of the call when a README that is null makes the whole diff null.
ContentReturnFailing ==
  /\ cpc = "module"
  /\ m > Len(ModulesOf(currentDocs))
  /\ LET readmeDiff == ReadmeDiff(publishedReadme, currentReadme)
     IN  /\ contentDiff' = [contentDiff EXCEPT !.readmeDiff = readmeDiff]
         /\ hasAnyDiff' = (hasAnyDiff \/ readmeDiff # Absent)
  /\ contentResult' = IF publishedReadme = Absent \/ currentReadme = Absent
                      THEN "null"
                      ELSE IF hasAnyDiff' THEN "diff" ELSE "null"
  /\ cpc' = "done"
  /\ UNCHANGED <<publishedDocs, currentDocs, publishedReadme, currentReadme,
                 m, moduleDiff, moduleHasDiff, parseVars, buildVars, restVars>>

\* Lines 974-982: after the last module, the README diff is recorded when
\* there is one, and the ContentDiff is returned if it has anything.
ContentReturn ==
  /\ cpc = "module"
  /\ m > Len(ModulesOf(currentDocs))
  /\ LET readmeDiff == ReadmeDiff(publishedReadme, currentReadme)
     IN  /\ contentDiff' = [contentDiff EXCEPT !.readmeDiff = readmeDiff]
         /\ hasAnyDiff' = (hasAnyDiff \/ readmeDiff # Absent)
  /\ contentResult' = IF hasAnyDiff' THEN "diff" ELSE "null"
  /\ cpc' = "done"
  /\ UNCHANGED <<publishedDocs, currentDocs, publishedReadme, currentReadme,
                 m, moduleDiff, moduleHasDiff, parseVars, buildVars, restVars>>

NextContent ==
  \/ ContentStart
  \/ ModuleEnter
  \/ ValuesLoop
  \/ BinopsLoop
  \/ AliasesLoop
  \/ UnionsLoop
  \/ ModulePush
  \/ ContentReturn

SpecContent == InitContent /\ [][NextContent]_vars

(***************************************************************************)
(* computeLineDiff: the state machine.                                     *)
(***************************************************************************)
MaxTextLines == 2

TextLines == {<<>>, <<"a">>, <<"b">>}

\* The texts of at most MaxTextLines lines, with and without a final line
\* break.
Texts ==
  {JoinWith(ls, <<NL>>) \o e :
     ls \in UNION {[1..n -> TextLines] : n \in 0..MaxTextLines},
     e \in {<<>>, <<NL>>}}

\* The state when computeLineDiff is called with the two texts.
LineCalled(a, b) ==
  /\ oldText = a
  /\ newText = b
  /\ changes = <<>>
  /\ change = 0
  /\ lineDiff = <<>>
  /\ lpc = "start"
  /\ lineResult = "pending"
  /\ OthersIdle("line")

InitLineDiff == \E a \in Texts, b \in Texts : LineCalled(a, b)

\* A start that goes to the loop whatever the changes are.
LineDiffStartAlwaysLoops ==
  /\ lpc = "start"
  /\ changes' = diffLines(oldText, newText)
  /\ change' = 1
  /\ lpc' = "loop"
  /\ UNCHANGED <<oldText, newText, lineDiff, lineResult, outsideLine>>

\* Lines 808-811: the changes of the two texts; null when none of them is
\* added or removed, otherwise the loop starts with an empty result.
LineDiffStart ==
  /\ lpc = "start"
  /\ changes' = diffLines(oldText, newText)
  /\ IF ~HasChanges(changes')
     THEN /\ lineResult' = "null"
          /\ lpc' = "done"
          /\ UNCHANGED change
     ELSE /\ change' = 1
          /\ lpc' = "loop"
          /\ UNCHANGED lineResult
  /\ UNCHANGED <<oldText, newText, lineDiff, outsideLine>>

\* Lines 813-818: one turn of the loop pushes the DiffLines of one change.
LineDiffChange ==
  /\ lpc = "loop"
  /\ change <= Len(changes)
  /\ lineDiff' = lineDiff \o ChangeLines(changes[change])
  /\ change' = change + 1
  /\ UNCHANGED <<oldText, newText, changes, lpc, lineResult, outsideLine>>

\* Line 820: return result
LineDiffReturn ==
  /\ lpc = "loop"
  /\ change > Len(changes)
  /\ lineResult' = "lines"
  /\ lpc' = "done"
  /\ UNCHANGED <<oldText, newText, changes, change, lineDiff, outsideLine>>

NextLineDiff ==
  \/ LineDiffStart
  \/ LineDiffChange
  \/ LineDiffReturn

SpecLineDiff == InitLineDiff /\ [][NextLineDiff]_vars

(***************************************************************************)
(* The published baseline: latest version, documentation and README, from  *)
(* the package cache or from the package registry.                         *)
(***************************************************************************)
Dot == "."

\* String.prototype.split(sep) for a separator of one character.
SplitOn(text, sep) ==
  LET seps == Ascending({k \in 1..Len(text) : text[k] = sep})
      from(k) == IF k = 1 THEN 1 ELSE seps[k - 1] + 1
      to(k) == IF k = Len(seps) + 1 THEN Len(text) ELSE seps[k] - 1
  IN  [k \in 1..(Len(seps) + 1) |-> SubSeq(text, from(k), to(k))]

DigitChars == <<"0","1","2","3","4","5","6","7","8","9">>

\* The number a text of digits writes in base ten.
RECURSIVE DecimalValue(_)
DecimalValue(text) ==
  IF Len(text) = 0 THEN 0
  ELSE 10 * DecimalValue(SubSeq(text, 1, Len(text) - 1))
         + (CHOOSE d \in 0..9 : DigitChars[d + 1] = text[Len(text)])

\* NaN, and undefined where a number is expected: neither less nor greater
\* than anything.
NaN == <<>>

\* Number(text), for the texts of digits and the texts that are no number.
Number(text) ==
  IF \A k \in 1..Len(text) : text[k] \in Digits
  THEN <<DecimalValue(text)>>
  ELSE NaN

\* x < y of two values that are numbers, NaN or undefined.
LessThan(x, y) == x # NaN /\ y # NaN /\ x[1] < y[1]

\* a.split(".").map(Number)
VersionParts(v) ==
  LET parts == SplitOn(v, Dot) IN [k \in 1..Len(parts) |-> Number(parts[k])]

\* pa[i], undefined past the end.
PartAt(pa, k) == IF k <= Len(pa) THEN pa[k] ELSE NaN

\* The order of the texts, character by character, that sort uses when it
\* is given no comparison.
compareAsText(a, b) ==
  LET code(c) == CHOOSE d \in 0..10 : (<<Dot>> \o DigitChars)[d + 1] = c
      differ == {k \in 1..Len(a) : k > Len(b) \/ a[k] # b[k]}
      first == CHOOSE k \in differ : \A j \in differ : k <= j
  IN  IF differ = {} THEN (IF Len(a) < Len(b) THEN -1 ELSE 0)
      ELSE IF first > Len(b) THEN 1
      ELSE IF code(a[first]) < code(b[first]) THEN -1 ELSE 1

\* Lines 705-713
compareVersionsLocal(a, b) ==
  LET pa == VersionParts(a)
      pb == VersionParts(b)
      decided == {k \in 1..3 : \/ LessThan(PartAt(pa, k), PartAt(pb, k))
                               \/ LessThan(PartAt(pb, k), PartAt(pa, k))}
      first == CHOOSE k \in decided : \A j \in decided : k <= j
  IN  IF decided = {} THEN 0
      ELSE IF LessThan(PartAt(pa, first), PartAt(pb, first)) THEN -1 ELSE 1

\* versions.sort(compareVersionsLocal): the sort is stable, so that each
\* version comes after the versions before it that are not greater.
RECURSIVE SortVersions(_)
SortVersions(versions) ==
  IF Len(versions) <= 1 THEN versions
  ELSE LET n == Len(versions)
           last == versions[n]
           front == SortVersions(SubSeq(versions, 1, n - 1))
           notGreater == {k \in 1..(n - 1) :
                            compareVersionsLocal(front[k], last) <= 0}
           at == IF notGreater = {} THEN 0
                 ELSE CHOOSE k \in notGreater : \A j \in notGreater : j <= k
       IN  SubSeq(front, 1, at) \o <<last>> \o SubSeq(front, at + 1, n - 1)

\* Line 721: /^\d+\.\d+\.\d+$/.test(v)
IsVersionName(v) ==
  LET parts == SplitOn(v, Dot)
  IN  /\ Len(parts) = 3
      /\ \A k \in 1..3 :
           Len(parts[k]) > 0 /\ \A x \in 1..Len(parts[k]) : parts[k][x] \in Digits

Filter(list, Keep(_)) ==
  LET kept == Ascending({k \in 1..Len(list) : Keep(list[k])})
  IN  [k \in 1..Len(kept) |-> list[kept[k]]]

\* versions.sort(compareVersionsLocal).pop() of lines 724 and 744, after the
\* test of the lines before for an empty array.
LatestOf(versions) ==
  IF Len(versions) = 0 THEN Absent
  ELSE Some(SortVersions(versions)[Len(versions)])

\* Lines 715-728: null when the directory of the package is missing or
\* cannot be read.
getLatestPublishedVersionFromCache(dir) ==
  IF ~dir.exists \/ dir.raises THEN Absent
  ELSE LatestOf(Filter(dir.content, IsVersionName))

\* Lines 735-748: the request of releases.json.
fetchLatestPublishedVersion(res) ==
  IF res.threw \/ ~res.ok THEN Absent ELSE LatestOf(res.body)

\* Lines 751-759 and 779-787: null when the file is missing or cannot be
\* read or parsed, otherwise what it holds.
loadPublishedFromCache(file) ==
  IF ~file.exists \/ file.raises THEN Absent ELSE file.content

\* Lines 761-772 and 789-800
fetchPublished(res) ==
  IF res.threw \/ ~res.ok THEN Absent ELSE res.body

\* What the cache gives for the resource.
FromCache(what, cache) ==
  IF what = "version" THEN getLatestPublishedVersionFromCache(cache)
  ELSE loadPublishedFromCache(cache)

\* What the registry gives for the resource.
FromRegistry(what, res) ==
  IF what = "version" THEN fetchLatestPublishedVersion(res)
  ELSE fetchPublished(res)

\* The tests of what the cache gave: if (cached) for the version, ?? for the
\* documentation and the README.
Found(what, answer) ==
  IF what = "version" THEN answer # Absent /\ Len(answer[1]) > 0
  ELSE answer # Absent

MaxVersions == 3

V_1_9_0 == <<"1",".","9",".","0">>
V_1_10_0 == <<"1",".","1","0",".","0">>
V_2_0_0 == <<"2",".","0",".","0">>
V_1_99_99 == <<"1",".","9","9",".","9","9">>
N_tmp == <<"t","m","p">>

\* What readdirSync can list in the directory of a package.
CacheNames == {V_1_9_0, V_1_10_0, V_2_0_0, V_1_99_99, N_tmp}

\* The versions releases.json can name.
RegistryVersions == {V_1_9_0, V_1_10_0, V_2_0_0}

\* The lists of at most max different elements of pool.
Listings(pool, max) ==
  {list \in UNION {[1..n -> pool] : n \in 0..max} :
     \A j, k \in 1..Len(list) : j # k => list[j] # list[k]}

\* A directory or a file of the cache: missing, unreadable, or with content.
CacheStates(contents) ==
  {[exists |-> FALSE, raises |-> FALSE, content |-> <<>>],
   [exists |-> TRUE, raises |-> TRUE, content |-> <<>>]}
    \cup [exists : {TRUE}, raises : {FALSE}, content : contents]

\* An answer of the registry: none, one that is not ok, or one with a body.
Responses(bodies) ==
  {[threw |-> TRUE, ok |-> FALSE, body |-> <<>>],
   [threw |-> FALSE, ok |-> FALSE, body |-> <<>>]}
    \cup [threw : {FALSE}, ok : {TRUE}, body : bodies]

S_json1 == <<"d","o","c","s","1">>
S_json2 == <<"d","o","c","s","2">>

\* A docs.json holds a value, which can be null; a README.md holds a text,
\* which can be empty.
PublishedValues(what) ==
  IF what = "docs" THEN {Absent, Some(S_json1), Some(S_json2)}
  ELSE {Some(<<>>), Some(S_readme1), Some(S_readme2)}

\* The state when one of the three loaders is called.
ResolveCalled(what, cache, res) ==
  /\ resource = what
  /\ elmCache = cache
  /\ registry = res
  /\ queried = <<>>
  /\ resolved = <<>>
  /\ rpc = "cache"
  /\ OthersIdle("resolve")

InitResolve ==
  \/ \E cache \in CacheStates(Listings(CacheNames, MaxVersions)),
        res \in Responses(Listings(RegistryVersions, MaxVersions)) :
       ResolveCalled("version", cache, res)
  \/ \E what \in {"docs", "readme"} :
       \E cache \in CacheStates(PublishedValues(what)),
          res \in Responses(PublishedValues(what)) :
         ResolveCalled(what, cache, res)

\* A first step that goes on to the registry whatever the cache gave.
ResolveFromCacheThenRegistry ==
  /\ rpc = "cache"
  /\ queried' = Append(queried, "cache")
  /\ resolved' = FromCache(resource, elmCache)
  /\ rpc' = "registry"
  /\ UNCHANGED <<resource, elmCache, registry, outsideResolve>>

\* Lines 732-733, 775 and 803: the cache is asked first, and what it gives
\* is returned unless it is null.
ResolveFromCache ==
  /\ rpc = "cache"
  /\ queried' = Append(queried, "cache")
  /\ resolved' = FromCache(resource, elmCache)
  /\ rpc' = IF Found(resource, resolved') THEN "done" ELSE "registry"
  /\ UNCHANGED <<resource, elmCache, registry, outsideResolve>>

\* Lines 735-748, 776 and 804: the registry is asked, and what it gives is
\* returned.
ResolveFromRegistry ==
  /\ rpc = "registry"
  /\ queried' = Append(queried, "registry")
  /\ resolved' = FromRegistry(resource, registry)
  /\ rpc' = "done"
  /\ UNCHANGED <<resource, elmCache, registry, outsideResolve>>

NextResolve ==
  \/ ResolveFromCache
  \/ ResolveFromRegistry

SpecResolve == InitResolve /\ [][NextResolve]_vars

(***************************************************************************)
(* DocServer: the watched files and the 'diff' message.                    *)
(***************************************************************************)
MaxChanges == 2

\* The files of the watcher, as onChange tells them apart.
WatchedFiles == {"README.md", "elm.json", "src/Main.elm"}

\* What getManifestSync can return for elm.json.
Manifests == {"package", "application", "null"}

Clients == {"c1", "c2"}

\* The results buildDiff and computeContentDiff can have.
DiffOutcomes == {"null", "diff"}

\* The server is listening: the watcher is set up when there is a manifest.
InitServer ==
  /\ manifest \in {"package", "application"}
  /\ clients = {}
  /\ tasks = <<>>
  /\ sent = <<>>
  /\ OthersIdle("server")

\* Lines 1296-1309: the call of sendDiff up to its first await. Without the
\* manifest of a package with a name the call does nothing; otherwise
\* buildDiff has run and the latest version is awaited.
SendDiffCalled(cause, read, d) ==
  IF read = "package"
  THEN [cause |-> cause, at |-> "version", diff |-> d]
  ELSE [cause |-> cause, at |-> "skipped", diff |-> "null"]

\* Lines 1207-1221: elm.json is read again when the file is a .json file,
\* and every branch ends with a call of sendDiff.
OnChange(filepath) ==
  /\ Len(tasks) < MaxChanges
  /\ \E read \in (IF filepath = "elm.json" THEN Manifests ELSE {manifest}) :
       \E d \in DiffOutcomes :
         /\ manifest' = read
         /\ tasks' = Append(tasks, SendDiffCalled(filepath, read, d))
  /\ UNCHANGED <<clients, sent, outsideServer>>

\* Lines 1062-1064: a client connects, and sendDiff is called.
Connect(c) ==
  /\ Len(tasks) < MaxChanges
  /\ c \notin clients
  /\ clients' = clients \cup {c}
  /\ \E d \in DiffOutcomes :
       tasks' = Append(tasks, SendDiffCalled("connection", manifest, d))
  /\ UNCHANGED <<manifest, sent, outsideServer>>

\* A client is not open any more.
Disconnect(c) ==
  /\ c \in clients
  /\ clients' = clients \ {c}
  /\ UNCHANGED <<manifest, tasks, sent, outsideServer>>

\* Lines 1334-1343 and 1394-1400: the message is built, which reads
\* this.manifest.version and raises a TypeError when this.manifest is null,
\* and is sent to every client that is open.
Broadcast(t, cd) ==
  IF manifest = "null"
  THEN /\ tasks' = [tasks EXCEPT ![t].at = "raised"]
       /\ UNCHANGED sent
  ELSE /\ tasks' = [tasks EXCEPT ![t].at = "sent"]
       /\ sent' = Append(sent, [task |-> t, to |-> clients,
                                diff |-> tasks[t].diff, contentDiff |-> cd])

\* Lines 1309-1315 and 1328-1330: getLatestPublishedVersion has returned.
\* With a version, the name of this.manifest is read for the two loaders,
\* which raises a TypeError when this.manifest is null; without one the
\* message is sent with a null contentDiff.
VersionReturns(t) ==
  /\ t \in 1..Len(tasks)
  /\ tasks[t].at = "version"
  /\ \E latestVersion \in BOOLEAN :
       IF latestVersion
       THEN /\ tasks' = [tasks EXCEPT ![t].at =
                           IF manifest = "null" THEN "raised" ELSE "published"]
            /\ UNCHANGED sent
       ELSE Broadcast(t, "null")
  /\ UNCHANGED <<manifest, clients, outsideServer>>

\* Lines 1312-1326 and 1334-1343: the published documentation and README
\* have returned; buildDocs and computeContentDiff run, and the message is
\* sent.
PublishedReturns(t) ==
  /\ t \in 1..Len(tasks)
  /\ tasks[t].at = "published"
  /\ \E cd \in DiffOutcomes : Broadcast(t, cd)
  /\ UNCHANGED <<manifest, clients, outsideServer>>

NextServer ==
  \/ \E filepath \in WatchedFiles : OnChange(filepath)
  \/ \E c \in Clients : Connect(c)
  \/ \E c \in Clients : Disconnect(c)
  \/ \E t \in 1..MaxChanges : VersionReturns(t)
  \/ \E t \in 1..MaxChanges : PublishedReturns(t)

\* The external calls return: an awaited call of sendDiff goes on.
ServerFairness ==
  \A t \in 1..MaxChanges :
    WF_vars(VersionReturns(t)) /\ WF_vars(PublishedReturns(t))

SpecServer == InitServer /\ [][NextServer]_vars /\ ServerFairness

(***************************************************************************)
(* The three routines called one after the other: each call starts with    *)
(* its arguments and fresh locals, and runs to its return.                 *)
(***************************************************************************)
MaxCalls == 3

\* A text that is no report, and a report with every kind of section.
ParseInputs ==
  {L_Random,
   Join(<<L_Major, L_Random, L_AddedBanner, L_Name, L_RemovedBanner, L_Name,
          L_BannerM, L_Added, L_ItemF, L_Blank>>)}

LineInputs == {<<S_readme1, S_readme1>>, <<S_readme1, S_readme2>>}

M_Base == DocsModule(<<"M">>, BaseValues, BaseBinops, BaseAliases, BaseUnions)

M_Changed ==
  DocsModule(<<"M">>, <<Value(S_foo, S_new, S_String)>>, BaseBinops,
             BaseAliases, BaseUnions)

ContentInputs ==
  {<<Absent, Some(<<M_Base>>), Some(S_readme1), Some(S_readme1)>>,
   <<Some(<<M_Base>>), Some(<<M_Base>>), Some(S_readme1), Some(S_readme1)>>,
   <<Some(<<M_Base>>), Some(<<M_Changed>>), Some(S_readme1), Some(S_readme1)>>}

\* No call has been made yet.
InitCalls ==
  /\ ParseIdle
  /\ BuildIdle
  /\ ContentIdle
  /\ LineIdle
  /\ ResolveIdle
  /\ ServerIdle
  /\ NoHistory
  /\ DecodeIdle
  /\ LookupIdle
  /\ ExtractIdle
  /\ PreviewIdle
  /\ PageIdle

\* The routines are synchronous: a call is made when none is running.
NoCallRunning ==
  /\ pc \in {"idle", "done"}
  /\ cpc \in {"idle", "done"}
  /\ lpc \in {"idle", "done"}

\* The calls that have returned, with what was given and what was returned.
Finished ==
  (IF pc = "done"
   THEN {[routine |-> "parseDiffOutput", arguments |-> <<output>>,
          returned |-> <<result, IF result = "diff" THEN diff ELSE NoDiff>>]}
   ELSE {})
  \cup
  (IF lpc = "done"
   THEN {[routine |-> "computeLineDiff", arguments |-> <<oldText, newText>>,
          returned |-> <<lineResult,
                         IF lineResult = "lines" THEN lineDiff ELSE <<>>>>]}
   ELSE {})
  \cup
  (IF cpc = "done"
   THEN {[routine |-> "computeContentDiff",
          arguments |-> <<publishedDocs, currentDocs, publishedReadme,
                          currentReadme>>,
          returned |-> <<contentResult,
                         IF contentResult = "diff" THEN contentDiff ELSE <<>>>>]}
   ELSE {})

\* The locals of a call that returned are gone.
ParseGone ==
  /\ output' = <<>>
  /\ lines' = <<>>
  /\ i' = 0
  /\ diff' = NoDiff
  /\ mc' = NoModule
  /\ section' = "null"
  /\ pc' = "idle"
  /\ result' = "none"

LineGone ==
  /\ oldText' = <<>>
  /\ newText' = <<>>
  /\ changes' = <<>>
  /\ change' = 0
  /\ lineDiff' = <<>>
  /\ lpc' = "idle"
  /\ lineResult' = "none"

ContentGone ==
  /\ publishedDocs' = <<>>
  /\ currentDocs' = <<>>
  /\ publishedReadme' = <<>>
  /\ currentReadme' = <<>>
  /\ contentDiff' = <<>>
  /\ hasAnyDiff' = FALSE
  /\ m' = 0
  /\ moduleDiff' = <<>>
  /\ moduleHasDiff' = FALSE
  /\ cpc' = "idle"
  /\ contentResult' = "none"

\* A call is made after the one before has returned.
CallMade ==
  /\ NoCallRunning
  /\ calls < MaxCalls
  /\ calls' = calls + 1
  /\ history' = history \cup Finished
  /\ UNCHANGED <<buildVars, resolveVars, serverVars, decodeVars, lookupVars,
                 laterVars>>

\* Line 577: parseDiffOutput(output)
CallParse ==
  /\ CallMade
  /\ \E text \in ParseInputs : output' = text
  /\ lines' = <<>>
  /\ i' = 0
  /\ diff' = NoDiff
  /\ mc' = NoModule
  /\ section' = "null"
  /\ pc' = "start"
  /\ result' = "pending"
  /\ LineGone
  /\ ContentGone

\* Line 807: computeLineDiff(oldText, newText)
CallLineDiff ==
  /\ CallMade
  /\ \E texts \in LineInputs : oldText' = texts[1] /\ newText' = texts[2]
  /\ changes' = <<>>
  /\ change' = 0
  /\ lineDiff' = <<>>
  /\ lpc' = "start"
  /\ lineResult' = "pending"
  /\ ParseGone
  /\ ContentGone

\* A call that finds hasAnyDiff as the call before left it.
CallContentKeepingFlag ==
  /\ CallMade
  /\ \E given \in ContentInputs :
       /\ publishedDocs' = given[1]
       /\ currentDocs' = given[2]
       /\ publishedReadme' = given[3]
       /\ currentReadme' = given[4]
  /\ contentDiff' = <<>>
  /\ UNCHANGED hasAnyDiff
  /\ m' = 0
  /\ moduleDiff' = <<>>
  /\ moduleHasDiff' = FALSE
  /\ cpc' = "start"
  /\ contentResult' = "pending"
  /\ ParseGone
  /\ LineGone

\* Lines 841-855: computeContentDiff(publishedDocs, currentDocs,
\* publishedReadme, currentReadme)
CallContent ==
  /\ CallMade
  /\ \E given \in ContentInputs :
       /\ publishedDocs' = given[1]
       /\ currentDocs' = given[2]
       /\ publishedReadme' = given[3]
       /\ currentReadme' = given[4]
  /\ contentDiff' = <<>>
  /\ hasAnyDiff' = FALSE
  /\ m' = 0
  /\ moduleDiff' = <<>>
  /\ moduleHasDiff' = FALSE
  /\ cpc' = "start"
  /\ contentResult' = "pending"
  /\ ParseGone
  /\ LineGone

NextCalls ==
  \/ CallParse
  \/ CallLineDiff
  \/ CallContent
  \/ Next
  \/ NextLineDiff
  \/ NextContent

SpecCalls == InitCalls /\ [][NextCalls]_vars

(***************************************************************************)
(* The UI: the decoder of the ContentDiff.                                 *)
(***************************************************************************)
\* Result of a decoder.
Err == [ok |-> FALSE, value |-> <<>>]

Ok(v) == [ok |-> TRUE, value |-> v]

\* Lines 91-106 of ContentDiff.elm
diffLineStatusDecoder(status) ==
  IF status = -1 THEN Ok("DiffRemoved")
  ELSE IF status = 0 THEN Ok("DiffContext")
  ELSE IF status = 1 THEN Ok("DiffAdded")
  ELSE Err

\* Lines 84-87: Decode.index 0 and Decode.index 1 of an array.
diffLineDecoder(array) ==
  IF Len(array) < 2 THEN Err
  ELSE LET status == diffLineStatusDecoder(array[1])
       IN  IF status.ok
           THEN Ok([status |-> status.value, content |-> array[2]])
           ELSE Err

\* Decode.list diffLineDecoder
DiffLinesDecoder(array) ==
  LET rs == [k \in 1..Len(array) |-> diffLineDecoder(array[k])]
  IN  IF \A k \in 1..Len(array) : rs[k].ok
      THEN Ok([k \in 1..Len(array) |-> rs[k].value])
      ELSE Err

\* Lines 67 and 79: Decode.maybe (Decode.field name (Decode.list
\* diffLineDecoder)), which succeeds with Nothing when the field is missing
\* and when its decoder fails.
MaybeDiffLinesField(field) ==
  IF field = Absent THEN Ok(Absent)
  ELSE LET r == DiffLinesDecoder(field[1])
       IN  IF r.ok THEN Ok(Some(r.value)) ELSE Ok(Absent)

\* Lines 77-80
itemContentDiffDecoder(item) ==
  LET commentDiff == MaybeDiffLinesField(item.commentDiff)
  IN  IF commentDiff.ok
      THEN Ok([commentDiff |-> commentDiff.value,
               oldAnnotation |-> item.oldAnnotation])
      ELSE Err

\* Lines 71-73: Decode.field "items" (Decode.dict itemContentDiffDecoder)
moduleContentDiffDecoder(module) ==
  LET rs == [n \in DOMAIN module.items |-> itemContentDiffDecoder(module.items[n])]
  IN  IF \A n \in DOMAIN rs : rs[n].ok
      THEN Ok([items |-> [n \in DOMAIN rs |-> rs[n].value]])
      ELSE Err

\* Lines 64-67
contentDiffDecoder(value) ==
  LET rs == [n \in DOMAIN value.modules |->
               moduleContentDiffDecoder(value.modules[n])]
      readmeDiff == MaybeDiffLinesField(value.readmeDiff)
  IN  IF (\A n \in DOMAIN rs : rs[n].ok) /\ readmeDiff.ok
      THEN Ok([modules |-> [n \in DOMAIN rs |-> rs[n].value],
               readmeDiff |-> readmeDiff.value])
      ELSE Err

\* JSON.stringify of a ContentDiff: an object of modules, each with its
\* items; a property that is not set is left out.
ContentDiffJson(cd) ==
  [modules |-> [n \in DOMAIN cd.modules |-> [items |-> cd.modules[n]]],
   readmeDiff |-> cd.readmeDiff]

\* ContentDiffs of computeContentDiff: no module or the module M with the
\* value foo, whose comment and type changed, and the line diff of two
\* READMEs, if any.
ServerContentDiffs ==
  LET item == ItemDiff("values", Value(S_foo, S_old, S_Int),
                       Value(S_foo, S_new, S_String))
      modules == {<<>>, Assign(<<>>, <<"M">>, Assign(<<>>, S_foo, item))}
      readmes == {computeLineDiff(a, b) : a \in Texts, b \in Texts}
  IN  {ContentDiffJson([modules |-> ms, readmeDiff |-> rd]) :
         ms \in modules, rd \in readmes}
        \ {ContentDiffJson([modules |-> <<>>, readmeDiff |-> Absent])}

\* Integers that are no status.
OtherStatuses == {-2, 2}

\* The DiffLines with the status of the first one replaced.
WithFirstStatus(ds, status) == [ds EXCEPT ![1] = <<status, ds[1][2]>>]

\* ContentDiffs no server sends: one status of a README diff or of a comment
\* diff is an integer that is no status.
ForeignContentDiffs ==
  {[v EXCEPT !.readmeDiff = Some(WithFirstStatus(v.readmeDiff[1], status))] :
     v \in {w \in ServerContentDiffs : w.readmeDiff # Absent},
     status \in OtherStatuses}
  \cup
  {[v EXCEPT !.modules[<<"M">>].items[S_foo].commentDiff =
               Some(WithFirstStatus(@[1], status))] :
     v \in {w \in ServerContentDiffs : DOMAIN w.modules # {}},
     status \in OtherStatuses}

\* The UI has received a value.
InitDecode ==
  /\ \/ \E v \in ServerContentDiffs : wire = [origin |-> "server", value |-> v]
     \/ \E v \in ForeignContentDiffs : wire = [origin |-> "foreign", value |-> v]
  /\ decoded = <<>>
  /\ dpc = "received"
  /\ OthersIdle("decode")

\* Decode.decodeValue with contentDiffDecoder
DecodeContentDiff ==
  /\ dpc = "received"
  /\ decoded' = contentDiffDecoder(wire.value)
  /\ dpc' = "decoded"
  /\ UNCHANGED <<wire, outsideDecode>>

NextDecode == DecodeContentDiff

SpecDecode == InitDecode /\ [][NextDecode]_vars

(***************************************************************************)
(* The UI: ApiDiff.lookupItem.                                             *)
(***************************************************************************)
\* List.member
Member(x, list) == \E k \in 1..Len(list) : list[k] = x

\* Elm's Maybe
Nothing == Absent

Just(x) == Some(x)

\* Lines 87-98 of ApiDiff.elm: the first record of the name.
RECURSIVE findModuleChanges(_, _)
findModuleChanges(moduleName, modules) ==
  IF Len(modules) = 0 THEN Nothing
  ELSE IF Head(modules).name = moduleName THEN Just(Head(modules))
  ELSE findModuleChanges(moduleName, Tail(modules))

\* A lookup that reads the record of the module before the added modules.
lookupItemRecordFirst(apiDiff, moduleName, itemName) ==
  LET found == findModuleChanges(moduleName, apiDiff.changedModules)
  IN  IF found # Nothing /\ Member(itemName, found[1].added) THEN "Added"
      ELSE IF found # Nothing /\ Member(itemName, found[1].changed) THEN "Changed"
      ELSE IF Member(moduleName, apiDiff.addedModules) THEN "ModuleAdded"
      ELSE "Unchanged"

\* Lines 66-84
lookupItem(apiDiff, moduleName, itemName) ==
  IF Member(moduleName, apiDiff.addedModules) THEN "ModuleAdded"
  ELSE LET found == findModuleChanges(moduleName, apiDiff.changedModules)
       IN  IF found = Nothing THEN "Unchanged"
           ELSE IF Member(itemName, found[1].added) THEN "Added"
           ELSE IF Member(itemName, found[1].changed) THEN "Changed"
           ELSE "Unchanged"

MaxRecords == 2

ModuleNames == {"M", "N", "O"}

ItemNames == {"f", "g", "h"}

\* Records of changes of the modules M and N.
ModuleRecords ==
  {[name |-> n, added |-> c[1], changed |-> c[2], removed |-> c[3]] :
     n \in {"M", "N"},
     c \in {<<<<"f">>, <<"g">>, <<"h">>>>, <<<<"f">>, <<"f">>, <<>>>>,
            <<<<>>, <<>>, <<"f">>>>, <<<<"g">>, <<"f">>, <<>>>>}}

\* ApiDiffs with at most MaxRecords records of changes.
ApiDiffs ==
  [magnitude : {T_MAJOR},
   addedModules : {<<>>, <<"M">>, <<"O", "M">>},
   removedModules : {<<>>},
   changedModules : UNION {[1..n -> ModuleRecords] : n \in 0..MaxRecords}]

\* lookupItem is called.
InitLookup ==
  /\ lookupDiff \in ApiDiffs
  /\ lookupModule \in ModuleNames
  /\ lookupName \in ItemNames
  /\ lookupStatus = "pending"
  /\ anyChanges = "none"
  /\ OthersIdle("lookup")

\* The call returns.
LookupItem ==
  /\ lookupStatus = "pending"
  /\ lookupStatus' = lookupItem(lookupDiff, lookupModule, lookupName)
  /\ UNCHANGED <<lookupDiff, lookupModule, lookupName, anyChanges, outsideLookup>>

NextLookup == LookupItem

SpecLookup == InitLookup /\ [][NextLookup]_vars

(***************************************************************************)
(* The UI: ApiDiff.hasChanges.                                             *)
(***************************************************************************)
\* A test that leaves the removed modules out.
hasChangesButRemoved(apiDiff) ==
  \/ Len(apiDiff.addedModules) # 0
  \/ Len(apiDiff.changedModules) # 0

\* Lines 101-105 of ApiDiff.elm
hasChanges(apiDiff) ==
  \/ ~(Len(apiDiff.addedModules) = 0)
  \/ ~(Len(apiDiff.removedModules) = 0)
  \/ ~(Len(apiDiff.changedModules) = 0)

\* ApiDiffs of every magnitude, with and without modules of each kind.
ApiDiffsOfAnyMagnitude ==
  [magnitude : Magnitudes,
   addedModules : {<<>>, <<"M">>, <<"O", "M">>},
   removedModules : {<<>>, <<"N">>, <<"N", "P">>},
   changedModules : UNION {[1..n -> ModuleRecords] : n \in 0..MaxRecords}]

\* hasChanges is called.
InitHasChanges ==
  /\ lookupDiff \in ApiDiffsOfAnyMagnitude
  /\ lookupModule = <<>>
  /\ lookupName = <<>>
  /\ lookupStatus = "none"
  /\ anyChanges = "pending"
  /\ OthersIdle("lookup")

\* The call returns.
HasChangesReturns ==
  /\ anyChanges = "pending"
  /\ anyChanges' = IF hasChanges(lookupDiff) THEN "True" ELSE "False"
  /\ UNCHANGED <<lookupDiff, lookupModule, lookupName, lookupStatus, outsideLookup>>

NextHasChanges == HasChangesReturns

SpecHasChanges == InitHasChanges /\ [][NextHasChanges]_vars

(***************************************************************************)
(* The on-demand preview: whether the API diff is run.                     *)
(***************************************************************************)
\* preview.ts, lines 206-214: the text of compareVersionsLocal.
compareVersions(a, b) == compareVersionsLocal(a, b)

\* preview.ts, lines 216-234: null when the request fails, is refused or
\* names no version, otherwise the last version of the sorted keys.
getLatestPublishedVersion(res) ==
  IF res.threw \/ ~res.ok THEN Absent
  ELSE IF Len(res.body) = 0 THEN Absent
  ELSE Some(SortVersions(res.body)[Len(res.body)])

\* shouldRunDiff returning with compareVersions(version, latest) > 0.
shouldRunDiffWhenAbove(json, res) ==
  IF json.raises THEN TRUE
  ELSE IF json.type # "package" THEN TRUE
  ELSE LET latest == getLatestPublishedVersion(res)
       IN  IF latest = Absent THEN TRUE
           ELSE IF json.version = Absent THEN TRUE
           ELSE compareVersions(json.version[1], latest[1]) > 0

\* preview.ts, lines 236-259: true when elm.json cannot be read or parsed,
\* for what is no package, when no published version is found and when
\* comparing raises (a manifest without version); otherwise whether the
\* version of the manifest is not behind the latest one.
shouldRunDiff(json, res) ==
  IF json.raises THEN TRUE
  ELSE IF json.type # "package" THEN TRUE
  ELSE LET latest == getLatestPublishedVersion(res)
       IN  IF latest = Absent THEN TRUE
           ELSE IF json.version = Absent THEN TRUE
           ELSE compareVersions(json.version[1], latest[1]) >= 0

\* What reading and parsing elm.json gives: a failure, or a manifest of an
\* application or of a package, with or without a version.
ManifestReads ==
  {[raises |-> TRUE, type |-> "none", version |-> Absent]}
    \cup [raises : {FALSE}, type : {"application", "package"},
          version : {Absent} \cup {Some(v) : v \in RegistryVersions}]

\* The handler has the work directory and is about to await shouldRunDiff.
InitPreview ==
  /\ elmJson \in ManifestReads
  /\ releases \in Responses(Listings(RegistryVersions, MaxVersions))
  /\ runDiff = "pending"
  /\ elmDiffRun = FALSE
  /\ previewDiff = "pending"
  /\ OthersIdle("preview")

\* preview.ts, lines 596-600: shouldRunDiff has returned.
ShouldRunDiffReturns ==
  /\ runDiff = "pending"
  /\ runDiff' = IF shouldRunDiff(elmJson, releases) THEN "true" ELSE "false"
  /\ UNCHANGED <<elmJson, releases, elmDiffRun, previewDiff, outsidePreview>>

\* preview.ts, line 601: buildDiff is called when runDiff is true, and gives
\* an ApiDiff or null; otherwise the diff is null.
PreviewDiffBuilt ==
  /\ runDiff \in {"true", "false"}
  /\ previewDiff = "pending"
  /\ IF runDiff = "true"
     THEN /\ elmDiffRun' = TRUE
          /\ previewDiff' \in DiffOutcomes
     ELSE /\ elmDiffRun' = FALSE
          /\ previewDiff' = "null"
  /\ UNCHANGED <<elmJson, releases, runDiff, outsidePreview>>

NextPreview ==
  \/ ShouldRunDiffReturns
  \/ PreviewDiffBuilt

SpecPreview == InitPreview /\ [][NextPreview]_vars

(***************************************************************************)
(* The on-demand preview: downloadAndExtract, called by requests for the   *)
(* same commit that the same container serves at the same time.            *)
(***************************************************************************)
MaxInvocations == 3

\* The files of the tarball of the commit, in the order of the archive
\* (the order of the names in the tree of the commit).
Archive == <<"README.md", "elm.json", "src/Main.elm">>

FilesOf(archive) == {archive[k] : k \in 1..Len(archive)}

\* An invocation at the statement at, which has extracted the entries
\* before next and returned when the work directory held the files of tree.
Invocation(at, next, tree) == [at |-> at, next |-> next, tree |-> tree]

InitExtract ==
  /\ workDir = {}
  /\ tarPath = FALSE
  /\ invocations = <<>>
  /\ OthersIdle("extract")

\* preview.ts, lines 52-65: the work directory is returned at once when it
\* holds elm.json; otherwise the tarball is requested.
DownloadCalled ==
  /\ Len(invocations) < MaxInvocations
  /\ invocations' =
       Append(invocations,
              IF "elm.json" \in workDir
              THEN Invocation("returned", 0, workDir)
              ELSE Invocation("fetch", 0, {}))
  /\ UNCHANGED <<workDir, tarPath, outsideExtract>>

\* preview.ts, lines 62-71: the request is answered, or fails or is refused
\* and the invocation raises.
FetchReturns(p) ==
  /\ p \in 1..Len(invocations)
  /\ invocations[p].at = "fetch"
  /\ \E ok \in BOOLEAN :
       invocations' = [invocations EXCEPT ![p].at = IF ok THEN "buffer" ELSE "raised"]
  /\ UNCHANGED <<workDir, tarPath, outsideExtract>>

\* preview.ts, lines 71-75: the body has arrived (or raises); the tarball is
\* written, the work directory made and tar.extract called.
BufferReturns(p) ==
  /\ p \in 1..Len(invocations)
  /\ invocations[p].at = "buffer"
  /\ \E ok \in BOOLEAN :
       IF ok
       THEN /\ tarPath' = TRUE
            /\ invocations' = [invocations EXCEPT ![p].at = "open"]
       ELSE /\ invocations' = [invocations EXCEPT ![p].at = "raised"]
            /\ UNCHANGED tarPath
  /\ UNCHANGED <<workDir, outsideExtract>>

\* preview.ts, line 75: tar.extract opens the tarball, and rejects when the
\* file is not there.
ExtractOpens(p) ==
  /\ p \in 1..Len(invocations)
  /\ invocations[p].at = "open"
  /\ invocations' =
       [invocations EXCEPT ![p] =
          IF tarPath THEN Invocation("extract", 1, {})
          ELSE Invocation("raised", 0, {})]
  /\ UNCHANGED <<workDir, tarPath, outsideExtract>>

\* preview.ts, line 75: tar.extract writes the next entry of the archive
\* into the work directory.
ExtractEntry(p) ==
  /\ p \in 1..Len(invocations)
  /\ invocations[p].at = "extract"
  /\ invocations[p].next <= Len(Archive)
  /\ workDir' = workDir \cup {Archive[invocations[p].next]}
  /\ invocations' = [invocations EXCEPT ![p].next = @ + 1]
  /\ UNCHANGED <<tarPath, outsideExtract>>

\* preview.ts, lines 75-78: tar.extract has returned; the tarball is
\* unlinked, which raises when it is not there, and the work directory is
\* returned.
ExtractReturns(p) ==
  /\ p \in 1..Len(invocations)
  /\ invocations[p].at = "extract"
  /\ invocations[p].next > Len(Archive)
  /\ IF tarPath
     THEN /\ tarPath' = FALSE
          /\ invocations' =
               [invocations EXCEPT ![p] = Invocation("returned", @.next, workDir)]
     ELSE /\ invocations' = [invocations EXCEPT ![p].at = "raised"]
          /\ UNCHANGED tarPath
  /\ UNCHANGED <<workDir, outsideExtract>>

NextExtract ==
  \/ DownloadCalled
  \/ \E p \in 1..MaxInvocations : FetchReturns(p)
  \/ \E p \in 1..MaxInvocations : BufferReturns(p)
  \/ \E p \in 1..MaxInvocations : ExtractOpens(p)
  \/ \E p \in 1..MaxInvocations : ExtractEntry(p)
  \/ \E p \in 1..MaxInvocations : ExtractReturns(p)

SpecExtract == InitExtract /\ [][NextExtract]_vars

(***************************************************************************)
(* Page.Docs: the diff pushed to the page.                                 *)
(***************************************************************************)
MaxPushes == 2

\* Page.Docs, lines 470-476: the diff is kept when author, project and
\* version are those of the page, and the model is returned as it is
\* otherwise.
updateDiff(author, project, version, maybeDiff, model) ==
  IF author = model.author /\ project = model.project /\ Just(version) = model.version
  THEN [model EXCEPT !.diffData = maybeDiff]
  ELSE model

\* Page.Docs, lines 480-482.
updateContentDiff(maybeContentDiff, model) ==
  [model EXCEPT !.contentDiff = maybeContentDiff]

\* The fields of the model of the page that the two functions read or write.
Pages ==
  [author : {"a"}, project : {"p", "q"},
   version : {Nothing, Just("1.0.0"), Just("2.0.0")},
   diffData : {Nothing, Just("apiDiff0")},
   contentDiff : {Nothing, Just("contentDiff0")}]

\* Ports.elm, lines 46-52, with diff and contentDiff decoded.
DiffMessages ==
  [author : {"a", "b"}, project : {"p"}, version : {"1.0.0", "2.0.0"},
   diff : {Nothing, Just("apiDiff1")},
   contentDiff : {Nothing, Just("contentDiff1")}]

InitPage ==
  /\ page \in Pages
  /\ pushed = <<>>
  /\ OthersIdle("page")

\* A Diff message arrives on the port onDiff while the page is shown: its
\* diff is given to updateDiff with the author, project and version of the
\* message, and its contentDiff to updateContentDiff.
DiffPushed ==
  /\ Len(pushed) < MaxPushes
  /\ \E message \in DiffMessages :
       /\ page' = updateContentDiff(message.contentDiff,
                    updateDiff(message.author, message.project, message.version,
                               message.diff, page))
       /\ pushed' = Append(pushed, message)
  /\ UNCHANGED outsidePage

NextPage == DiffPushed

SpecPage == InitPage /\ [][NextPage]_vars

\* ------------------------------------------------------------------
\* The copy of parseDiffOutput kept with its tests.
\* ------------------------------------------------------------------

\* Lines 28-33 and 36-41 of the tests' copy: a module list runs up to the
\* next line of four dashes or more; of its lines, those of indented text
\* are pushed and the others are stepped over.
RECURSIVE ModuleListOfTests(_, _, _)
ModuleListOfTests(ls, k, names) ==
  IF k < Len(ls) /\ ~IsDashBanner(ls[k + 1])
  THEN ModuleListOfTests(ls, k + 1,
         IF IsIndentedEntry(ls[k + 1]) THEN Append(names, Trim(ls[k + 1]))
         ELSE names)
  ELSE [at |-> k, names |-> names]

\* Lines 55-80 of the tests' copy: the module-body loop.
RECURSIVE ModuleBodyOfTests(_, _, _, _)
ModuleBodyOfTests(ls, k, rec, sect) ==
  IF k < Len(ls) /\ ~IsDashBanner(ls[k + 1])
  THEN LET sectionLine == Trim(ls[k + 1])
       IN  IF SectionHeader(sectionLine) # "null"
           THEN ModuleBodyOfTests(ls, k + 1, rec, SectionHeader(sectionLine))
           ELSE ModuleBodyOfTests(ls, k + 1, RecordItem(rec, sect, sectionLine), sect)
  ELSE [at |-> k, rec |-> rec]

\* Lines 22-88 of the tests' copy: the outer loop from line k on.
RECURSIVE ScanOfTests(_, _, _)
ScanOfTests(ls, k, d) ==
  IF ~(k < Len(ls)) THEN d
  ELSE LET line == ls[k + 1]
       IN  IF IsAddedModulesHeader(line)
           THEN LET r == ModuleListOfTests(ls, k + 1, d.addedModules)
                IN  ScanOfTests(ls, r.at, [d EXCEPT !.addedModules = r.names])
           ELSE IF IsRemovedModulesHeader(line)
           THEN LET r == ModuleListOfTests(ls, k + 1, d.removedModules)
                IN  ScanOfTests(ls, r.at, [d EXCEPT !.removedModules = r.names])
           ELSE IF IsModuleBanner(line) /\ ModuleBannerName(line) # NoMatch
           THEN LET r == ModuleBodyOfTests(ls, k + 1,
                           [name |-> ModuleBannerName(line), added |-> <<>>,
                            changed |-> <<>>, removed |-> <<>>], "null")
                IN  ScanOfTests(ls, r.at, [d EXCEPT !.changedModules = Append(@, r.rec)])
           ELSE ScanOfTests(ls, k + 1, d)

\* Lines 6-91 of the tests' copy: Absent for null, else the ApiDiff.
parseDiffOutputOfTests(text) ==
  LET ls == Split(text)
      magnitudeMatch == IF Len(ls) = 0 THEN NoMatch ELSE MagnitudeMatch(ls[1])
  IN  IF magnitudeMatch = NoMatch THEN Absent
      ELSE Some(ScanOfTests(ls, 1,
                  [magnitude |-> magnitudeMatch, addedModules |-> <<>>,
                   removedModules |-> <<>>, changedModules |-> <<>>]))

(***************************************************************************)
(* Properties of parseDiffOutput.  They are stated on the argument and on  *)
(* the value returned, with the vocabulary below.                          *)
(***************************************************************************)
Returned == pc = "done"

ReturnedDiff == pc = "done" /\ result = "diff"

\* The text up to its first line break.
FirstLineOf(text) ==
  IF FirstIndex(text, NL) = 0 THEN text ELSE SubSeq(text, 1, FirstIndex(text, NL) - 1)

\* p occurs somewhere in s.
Contains(s, p) ==
  \E k \in 0..(Len(s) - Len(p)) : SubSeq(s, k + 1, k + Len(p)) = p

\* The magnitudes announced on the first line of text.
Announced(text) ==
  {w \in Magnitudes : Contains(FirstLineOf(text), T_ThisIsA \o w \o T_Change)}

\* C1: the call returns null exactly when the first line of the text does
\* not contain 'This is a MAJOR|MINOR|PATCH change'; for every other text it
\* returns an ApiDiff whose magnitude is the word announced on the first
\* line, whatever the later lines and their banner magnitudes are.
C1_NullIffNoAnnouncement ==
  Returned =>
    /\ result = "null" <=> Announced(output) = {}
    /\ result = "diff" <=> Announced(output) # {}
    /\ result = "diff" => Announced(output) = {diff.magnitude}

\* A report announced as MINOR in the middle of its first line, with a
\* module banner of another magnitude, has been parsed.
C1_Witness ==
  /\ ReturnedDiff
  /\ diff.magnitude = T_MINOR
  /\ Len(diff.changedModules) > 0
  /\ FirstLineOf(output) = L_MinorInside

\* Line j of ls (counted from 1) starts with 4 or more dashes: it ends
\* whatever section or module body is open.
EndsSection(ls, j) == IsDashBanner(ls[j])

\* Line j of ls lies in the body opened by the banner at line b: after the
\* banner and before the next line of 4 or more dashes.
InBodyOf(ls, b, j) ==
  /\ b < j
  /\ \A k \in (b + 1)..j : ~EndsSection(ls, k)

\* The module names a report lists after its banners accepted by IsHeader:
\* the non-blank indented lines of their bodies, trimmed, in order of
\* appearance; blank lines do not end a body.
ListedModules(ls, IsHeader(_)) ==
  LET Listed(j) ==
        /\ IsIndentedEntry(ls[j])
        /\ \E b \in 2..Len(ls) : IsHeader(ls[b]) /\ InBodyOf(ls, b, j)
      at == Ascending({j \in 1..Len(ls) : Listed(j)})
  IN  [k \in 1..Len(at) |-> Trim(ls[at[k]])]

\* C2: after an ADDED MODULES banner every non-blank indented line up to
\* the next banner of 4 or more dashes, or the end of the text, is trimmed
\* and appended to addedModules in order of appearance; a blank line in the
\* body, also one right after the banner, does not end the section.
C2_AddedModulesSkipBlankLines ==
  ReturnedDiff => diff.addedModules = ListedModules(lines, IsAddedModulesHeader)

\* C3: after a REMOVED MODULES banner every non-blank indented line up to
\* the next banner of 4 or more dashes, or the end of the text, is trimmed
\* and appended to removedModules in order of appearance; blank lines in
\* the body do not end the section.
C3_RemovedModulesSkipBlankLines ==
  ReturnedDiff => diff.removedModules = ListedModules(lines, IsRemovedModulesHeader)

\* The elements of list are pairwise different.
NoDuplicates(list) ==
  \A a, b \in 1..Len(list) : a # b => list[a] # list[b]

\* C9: addedModules and removedModules are sets: no module name occurs
\* twice in addedModules nor twice in removedModules, also when the report
\* lists a name twice or has several ADDED / REMOVED MODULES sections.
C9_ModuleListsAreSets ==
  ReturnedDiff => NoDuplicates(diff.addedModules) /\ NoDuplicates(diff.removedModules)

\* The set of elements of a sequence.
Range(list) == {list[k] : k \in 1..Len(list)}

\* Position of the first occurrence of x in list.
FirstPos(list, x) == CHOOSE k \in 1..Len(list) : list[k] = x /\ \A j \in 1..(k - 1) : list[j] # x

\* The lines of ls, in order, that have the exact shape of a per-module
\* banner and are no ADDED MODULES or REMOVED MODULES banner.
Banners(ls) ==
  Ascending({j \in 2..Len(ls) :
    /\ IsModuleBanner(ls[j])
    /\ ~IsAddedModulesHeader(ls[j])
    /\ ~IsRemovedModulesHeader(ls[j])})

\* The subsection that is active at line j of the body opened at line b:
\* that of the last subsection header between them, "null" without one.
ActiveSection(ls, b, j) ==
  LET hs == {k \in (b + 1)..(j - 1) : SectionHeader(Trim(ls[k])) # "null"}
  IN  IF hs = {} THEN "null"
      ELSE SectionHeader(Trim(ls[CHOOSE k \in hs : \A h \in hs : h <= k]))

\* The name that line j of ls states as an item, NoMatch when it is a
\* subsection header or has not the shape of an item.
ItemAt(ls, j) ==
  IF SectionHeader(Trim(ls[j])) # "null" THEN NoMatch
  ELSE ItemNameMatch(StripMarker(Trim(ls[j])))

\* The names the body opened at line b states under subsection sect, one
\* per item line, in order.
NamesIn(ls, b, sect) ==
  LET at == Ascending({j \in (b + 1)..Len(ls) :
                /\ InBodyOf(ls, b, j)
                /\ ActiveSection(ls, b, j) = sect
                /\ ItemAt(ls, j) # NoMatch})
  IN  [k \in 1..Len(at) |-> ItemAt(ls, at[k])]

\* The list of a ModuleChanges record that belongs to subsection sect.
ListOf(rec, sect) ==
  IF sect = "added" THEN rec.added
  ELSE IF sect = "changed" THEN rec.changed
  ELSE rec.removed

Sections == {"added", "changed", "removed"}

\* list holds each of its names once, in the order in which the names first
\* occur in names.
InFirstOccurrenceOrder(list, names) ==
  /\ NoDuplicates(list)
  /\ Range(list) \subseteq Range(names)
  /\ \A p, q \in 1..Len(list) :
       p < q => FirstPos(names, list[p]) < FirstPos(names, list[q])

\* C4: in every ModuleChanges record returned, each of added, changed and
\* removed holds a name at most once, in the order of its first occurrence
\* in the body of that module; a Changed entry written as a '-' line and a
\* '+' line for one identifier gives one entry.
C4_ItemListsDeduplicated ==
  ReturnedDiff =>
    /\ Len(diff.changedModules) = Len(Banners(lines))
    /\ \A r \in 1..Len(diff.changedModules) : \A sect \in Sections :
         InFirstOccurrenceOrder(ListOf(diff.changedModules[r], sect),
                                NamesIn(lines, Banners(lines)[r], sect))

\* The body Changed:, - f, + g1, - f has been parsed into changed = f, g1.
C4_Witness ==
  /\ ReturnedDiff
  /\ Len(lines) >= 4
  /\ SubSeq(lines, Len(lines) - 3, Len(lines)) = <<L_Changed, L_MinusF, L_PlusG, L_MinusF>>
  /\ diff.changedModules[1].changed = <<<<"f">>, <<"g", "1">>>>

\* C5: a module body ends only at the next line of 4 or more dashes or at
\* the end of the text, never at a blank line: the names recorded for a
\* module under a subsection are those of all the item lines between its
\* banner and that end, the ones after blank lines included.
C5_BodyEndsOnlyAtBanner ==
  ReturnedDiff =>
    /\ Len(diff.changedModules) = Len(Banners(lines))
    /\ \A r \in 1..Len(diff.changedModules) : \A sect \in Sections :
         Range(ListOf(diff.changedModules[r], sect))
           = Range(NamesIn(lines, Banners(lines)[r], sect))

\* Module M with Added:, a blank line and then the item f: f is recorded
\* for M.
C5_Witness ==
  /\ ReturnedDiff
  /\ Len(lines) = 5
  /\ SubSeq(lines, 2, 5) = <<L_BannerM, L_Added, L_Blank, L_ItemF>>
  /\ diff.changedModules[1].added = <<<<"f">>>>

\* C6: in every ModuleChanges record returned, a name is in at most one of
\* added, changed and removed.
C6_ItemListsDisjoint ==
  ReturnedDiff =>
    \A r \in 1..Len(diff.changedModules) : \A s1, s2 \in Sections :
      s1 # s2 =>
        Range(ListOf(diff.changedModules[r], s1))
          \cap Range(ListOf(diff.changedModules[r], s2)) = {}

\* C7: every line after the first with the exact shape of a per-module
\* banner, other than an ADDED or REMOVED MODULES banner, gives exactly one
\* ModuleChanges record with the name on the banner, also when its body has
\* no item and when the banner is the line that ended the section or body
\* before it; changedModules lists the records in order of appearance.
C7_OneRecordPerBanner ==
  ReturnedDiff =>
    /\ Len(diff.changedModules) = Len(Banners(lines))
    /\ \A r \in 1..Len(diff.changedModules) :
         diff.changedModules[r].name = ModuleBannerName(lines[Banners(lines)[r]])

\* The banner of N ended the body of M, which has an item, and N, which has
\* none, is recorded after M.
C7_Witness ==
  /\ ReturnedDiff
  /\ Len(diff.changedModules) = 2
  /\ diff.changedModules[1].name = <<"M">>
  /\ diff.changedModules[1].added = <<<<"f">>>>
  /\ diff.changedModules[2] = [name |-> <<"N">>, added |-> <<>>, changed |-> <<>>,
                               removed |-> <<>>]

\* The body loop is at a line that it takes as part of the module body.
AtBodyLine ==
  /\ pc = "moduleBody"
  /\ i < Len(lines)
  /\ ModuleBodyContinues(LineAt(i))

\* The line the body loop is at has not the shape of an item: trimmed and
\* without its marker it does not start with an identifier, white space and
\* a colon.
NotItemShaped == ItemNameMatch(StripMarker(Trim(LineAt(i)))) = NoMatch

\* C8 as stated: a line of a module body that has not the shape of an item
\* changes none of added, changed and removed and does not change the
\* active subsection.
C8_NonItemLineChangesNothing ==
  [][AtBodyLine /\ NotItemShaped => mc' = mc /\ section' = section]_vars

\* C8, amended: a line of a module body that has not the shape of an item
\* and is not one of the subsection headers Added:, Changed: and Removed:
\* changes none of added, changed and removed and does not change the
\* active subsection.
C8_NonItemLineExceptHeader ==
  [][AtBodyLine /\ NotItemShaped /\ SectionHeader(Trim(LineAt(i))) = "null"
       => mc' = mc /\ section' = section]_vars

\* The continuation line of the changed item f has been passed: f is still
\* the only entry and Changed: the active subsection.
C8_Witness ==
  /\ pc = "moduleBody"
  /\ i >= 3
  /\ LineAt(i - 1) = L_Continuation
  /\ LineAt(i - 2) = L_MinusF
  /\ LineAt(i - 3) = L_Changed
  /\ section = "changed"
  /\ mc.changed = <<<<"f">>>>

InBody == pc \in {"addedBody", "removedBody", "moduleBody"}

\* One step of the call, as C10 describes it.
ForwardStep ==
  /\ i' >= i
  /\ pc = "scan" /\ pc' # "done" => i' = i + 1
  /\ pc = "scan" /\ pc' = "done" => i' = i /\ ~(i < Len(lines))
  /\ InBody => \/ pc' = pc /\ i' = i + 1
               \/ pc' = "scan" /\ i' = i

\* C10: the call is one forward pass that always makes progress: the line
\* index never decreases, every iteration of the outer loop advances it by
\* one line, every iteration of a body loop advances it by one line or
\* leaves the line to the outer loop, and the call returns on every text.
C10_ForwardProgress == [][ForwardStep]_vars /\ <>Returned

\* The call has returned after the longest texts, with all three kinds of
\* body scanned.
C10_Witness ==
  /\ ReturnedDiff
  /\ i = Len(lines)
  /\ Len(lines) = MaxBodyLines + 1
  /\ diff.addedModules # <<>>
  /\ diff.changedModules # <<>>
  /\ lines[Len(lines)] = L_Name

\* C11: parseDiffOutput never raises: whatever the text, no call ends in an
\* error, and a call that has returned gave null, with nothing built, or an
\* ApiDiff with its magnitude.
C11_NeverRaises ==
  /\ result \in {"pending", "null", "diff"}
  /\ Returned => result \in {"null", "diff"}
  /\ ~Returned => result = "pending"
  /\ result = "null" => diff = NoDiff
  /\ result = "diff" => diff.magnitude \in Magnitudes

\* A report cut right after an ADDED MODULES banner has been parsed into an
\* ApiDiff that has its magnitude and nothing else.
C11_Witness ==
  /\ ReturnedDiff
  /\ Len(lines) = MaxBodyLines + 1
  /\ lines[Len(lines)] = L_AddedBanner
  /\ diff.addedModules = <<>>
  /\ diff.removedModules = <<>>
  /\ diff.changedModules = <<>>

\* parseDiffOutput has been invoked.
ParserInvoked ==
  \/ pc \in {"start", "scan", "addedBody", "removedBody", "moduleBody", "done"}
  \/ lines # <<>>
  \/ result # "pending"

\* C12: buildDiff returns null without invoking parseDiffOutput whenever the
\* elm diff command has an error, a status other than 0, or throws;
\* parseDiffOutput is invoked only after a status of 0 without error, on what
\* the command printed, and buildDiff then returns what it returned.
C12_NullUnlessCommandSucceeded ==
  /\ elmResult.threw \/ elmResult.error \/ elmResult.status # <<0>>
       => /\ ~ParserInvoked
          /\ pc = "returned" => built = "null"
  /\ ParserInvoked
       => /\ ~elmResult.threw /\ ~elmResult.error /\ elmResult.status = <<0>>
          /\ output = elmResult.stdout
  /\ pc = "returned" /\ ParserInvoked => built = result

\* The command printed a report and exited with status 1: buildDiff has
\* returned null and the report was never parsed.
C12_Witness ==
  /\ pc = "returned"
  /\ built = "null"
  /\ ~elmResult.error
  /\ elmResult.status = <<1>>
  /\ FirstLineOf(elmResult.stdout) = L_Major
  /\ Len(elmResult.stdout) > Len(L_Major)
  /\ ~ParserInvoked

(***************************************************************************)
(* computeContentDiff: the claims.                                         *)
(***************************************************************************)
ContentReturned == cpc = "done"

ContentReturnedDiff == cpc = "done" /\ contentResult = "diff"

\* C13: when the published or the current snapshot is absent, the call
\* returns null at once, with nothing built, whatever the other snapshot and
\* the READMEs are.
C13_NullWhenSnapshotAbsent ==
  cpc # "idle" /\ (publishedDocs = Absent \/ currentDocs = Absent) =>
    /\ cpc \in {"start", "done"}
    /\ ContentReturned => contentResult = "null" /\ contentDiff = <<>>

\* The call has returned null for an absent published snapshot, a current
\* snapshot with modules and two READMEs that differ.
C13_Witness ==
  /\ ContentReturned
  /\ contentResult = "null"
  /\ publishedDocs = Absent
  /\ currentDocs # Absent
  /\ Len(currentDocs[1]) > 0
  /\ publishedReadme = Some(S_readme1)
  /\ currentReadme = Some(S_readme2)

Kinds == {"values", "binops", "aliases", "unions"}

\* The entities of a kind of a module.
Entities(mod, kind) ==
  IF kind = "values" THEN mod.values
  ELSE IF kind = "binops" THEN mod.binops
  ELSE IF kind = "aliases" THEN mod.aliases
  ELSE mod.unions

\* The signature of an entity of a kind, as the data model defines it.
Signature(kind, e) ==
  IF kind \in {"values", "binops"} THEN <<e.type>>
  ELSE IF kind = "aliases" THEN <<e.args, e.type>>
  ELSE <<e.args, e.cases>>

\* The modules named name in a snapshot.
ModulesNamed(docs, name) ==
  {ModulesOf(docs)[k] : k \in {j \in 1..Len(ModulesOf(docs)) :
                                 ModulesOf(docs)[j].name = name}}

\* The entities named name among those of a kind of a module.
EntitiesNamed(mod, kind, name) ==
  {Entities(mod, kind)[k] : k \in {j \in 1..Len(Entities(mod, kind)) :
                                     Entities(mod, kind)[j].name = name}}

\* The names of the elements of a list.
NamesOf(list) == {list[k].name : k \in 1..Len(list)}

\* An entity of the two snapshots, under one kind of one module, has another
\* comment or another signature in the current snapshot.
SomeEntityChanged ==
  \E cm \in Range(ModulesOf(currentDocs)) :
    \E pm \in ModulesNamed(publishedDocs, cm.name) : \E kind \in Kinds :
      \E c \in Range(Entities(cm, kind)) :
        \E e \in EntitiesNamed(pm, kind, c.name) :
          e.comment # c.comment \/ Signature(kind, e) # Signature(kind, c)

\* Both READMEs are there and they differ.
ReadmeChanged ==
  /\ publishedReadme # Absent
  /\ currentReadme # Absent
  /\ publishedReadme # currentReadme

\* C14: with both snapshots present, the call returns null exactly when no
\* module got an item and no readmeDiff was recorded, which is when no
\* shared entity and no README changed (identical snapshots with identical
\* READMEs among them), and otherwise it returns the ContentDiff it built.
C14_NullIffNothingChanged ==
  ContentReturned /\ publishedDocs # Absent /\ currentDocs # Absent =>
    /\ contentResult \in {"null", "diff"}
    /\ contentResult = "null"
         <=> contentDiff.modules = <<>> /\ contentDiff.readmeDiff = Absent
    /\ contentResult = "null" <=> ~SomeEntityChanged /\ ~ReadmeChanged
    /\ publishedDocs = currentDocs /\ publishedReadme = currentReadme
         => contentResult = "null"

\* The call has returned null for two identical snapshots of two modules
\* and two identical READMEs.
C14_Witness ==
  /\ ContentReturned
  /\ contentResult = "null"
  /\ publishedDocs # Absent
  /\ publishedDocs = currentDocs
  /\ Len(currentDocs[1]) = 2
  /\ publishedReadme = Some(S_readme1)
  /\ currentReadme = Some(S_readme1)

\* C15: every key of the modules map is the name of a module of the
\* published and of the current snapshot; a module of one snapshot only is
\* never recorded.
C15_ModulesAreShared ==
  cpc \notin {"idle", "start"} /\ contentDiff # <<>> =>
    \A name \in DOMAIN contentDiff.modules :
      /\ ModulesNamed(publishedDocs, name) # {}
      /\ ModulesNamed(currentDocs, name) # {}

\* The call has returned a ContentDiff for snapshots that each have a module
\* the other lacks, the one of the current snapshot with a new comment.
C15_Witness ==
  /\ ContentReturnedDiff
  /\ DOMAIN contentDiff.modules # {}
  /\ \E k \in 1..Len(currentDocs[1]) :
       /\ ModulesNamed(publishedDocs, currentDocs[1][k].name) = {}
       /\ currentDocs[1][k].values[1].comment = S_new
  /\ \E k \in 1..Len(publishedDocs[1]) :
       ModulesNamed(currentDocs, publishedDocs[1][k].name) = {}

\* The entities recorded for a module: under the name of each item, an
\* entity of that name exists under one kind in the published and in the
\* current module.
ItemsAreShared(name) ==
  \A item \in DOMAIN contentDiff.modules[name].items :
    \E kind \in Kinds :
      /\ \E pm \in ModulesNamed(publishedDocs, name) :
           EntitiesNamed(pm, kind, item) # {}
      /\ \E cm \in ModulesNamed(currentDocs, name) :
           EntitiesNamed(cm, kind, item) # {}

\* C16: every key of the items of a module is the name of an entity that is
\* under the same kind in the published and in the current module; an
\* entity of one side only is never recorded.
C16_ItemsAreShared ==
  /\ cpc \notin {"idle", "start"} /\ contentDiff # <<>> =>
       \A name \in DOMAIN contentDiff.modules : ItemsAreShared(name)
  /\ cpc \in Kinds \cup {"push"} =>
       \A item \in DOMAIN moduleDiff.items : \E kind \in Kinds :
         /\ EntitiesNamed(PublishedMod, kind, item) # {}
         /\ EntitiesNamed(CurrentMod, kind, item) # {}

\* The call has returned a ContentDiff with foo alone for a module whose
\* current version has the value bar that the published one lacks.
C16_Witness ==
  /\ ContentReturnedDiff
  /\ DOMAIN contentDiff.modules = {<<"M">>}
  /\ DOMAIN contentDiff.modules[<<"M">>].items = {S_foo}
  /\ Len(currentDocs[1]) = 1
  /\ Len(publishedDocs[1]) = 1
  /\ S_bar \in NamesOf(currentDocs[1][1].values)
  /\ S_bar \notin NamesOf(publishedDocs[1][1].values)

NoItem == [commentDiff |-> Absent, oldAnnotation |-> Absent]

\* What the ContentDiff holds for the entity item of the module name: its
\* ItemContentDiff, NoItem when there is none.
Recorded(name, item) ==
  IF name \in DOMAIN contentDiff.modules
  THEN IF item \in DOMAIN contentDiff.modules[name].items
       THEN contentDiff.modules[name].items[item]
       ELSE NoItem
  ELSE NoItem

\* P(kind, e, c, recorded) holds of every entity c of kinds that the current
\* snapshot shares with the published one, where it is e, and of what the
\* ContentDiff holds for it.
ForSharedEntities(kinds, P(_, _, _, _)) ==
  \A cm \in Range(ModulesOf(currentDocs)) :
    \A pm \in ModulesNamed(publishedDocs, cm.name) : \A kind \in kinds :
      \A c \in Range(Entities(cm, kind)) :
        \A e \in EntitiesNamed(pm, kind, c.name) :
          P(kind, e, c, Recorded(cm.name, c.name))

BothSnapshotsReturned ==
  ContentReturned /\ publishedDocs # Absent /\ currentDocs # Absent

\* Each snapshot has one module.
OneModuleEach ==
  /\ publishedDocs # Absent
  /\ currentDocs # Absent
  /\ Len(publishedDocs[1]) = 1
  /\ Len(currentDocs[1]) = 1

A_FooInt == <<"f","o","o"," ",":"," ","I","n","t">>

\* oldAnnotation is there iff the types differ, commentDiff iff the comments
\* do, and the old annotation is the published name and type.
TypeAloneDecides(kind, e, c, recorded) ==
  /\ recorded.oldAnnotation # Absent <=> e.type # c.type
  /\ recorded.commentDiff # Absent <=> e.comment # c.comment
  /\ e.type # c.type => recorded.oldAnnotation = Some(e.name \o T_Colon \o e.type)
  /\ e.name = S_foo /\ e.type = S_Int /\ c.type = S_String
       => recorded.oldAnnotation = Some(A_FooInt)

\* C17: for a value or a binop of both versions, oldAnnotation is recorded
\* iff the published and the current type differ, whatever the comments: a
\* new type alone gives oldAnnotation without commentDiff, a new comment
\* alone commentDiff without oldAnnotation, and both give both, with
\* oldAnnotation 'foo : Int' for foo : Int that became foo : String.
C17_ValueAnnotationIffTypeDiffers ==
  BothSnapshotsReturned => ForSharedEntities({"values", "binops"}, TypeAloneDecides)

\* foo : Int with comment old became foo : String with comment new, and the
\* call has returned an item with a commentDiff and oldAnnotation foo : Int.
C17_Witness ==
  /\ ContentReturnedDiff
  /\ OneModuleEach
  /\ publishedDocs[1][1].values = <<Value(S_foo, S_old, S_Int)>>
  /\ currentDocs[1][1].values = <<Value(S_foo, S_new, S_String)>>
  /\ Recorded(<<"M">>, S_foo).oldAnnotation = Some(A_FooInt)
  /\ Recorded(<<"M">>, S_foo).commentDiff # Absent

\* oldAnnotation is there iff the args or the type or cases differ.
StructureDecides(kind, e, c, recorded) ==
  /\ recorded.oldAnnotation # Absent
       <=> \/ e.args # c.args
           \/ kind = "aliases" /\ e.type # c.type
           \/ kind = "unions" /\ e.cases # c.cases
  /\ recorded.commentDiff # Absent <=> e.comment # c.comment

\* C18: for an alias or a union of both versions, oldAnnotation is recorded
\* exactly when the type parameters, the alias type or the union cases
\* (their number, a constructor name, an argument type or their order)
\* differ, and not when they are all equal.
C18_AnnotationIffStructureDiffers ==
  BothSnapshotsReturned => ForSharedEntities({"aliases", "unions"}, StructureDecides)

\* The union U whose constructors X and Y changed places, and nothing else,
\* has been recorded with an oldAnnotation and no commentDiff.
C18_Witness ==
  /\ ContentReturnedDiff
  /\ OneModuleEach
  /\ publishedDocs[1][1].unions =
       <<Union(<<"U">>, S_old, <<>>, <<<<<<"X">>, <<>>>>, <<<<"Y">>, <<>>>>>>)>>
  /\ currentDocs[1][1].unions =
       <<Union(<<"U">>, S_old, <<>>, <<<<<<"Y">>, <<>>>>, <<<<"X">>, <<>>>>>>)>>
  /\ Recorded(<<"M">>, <<"U">>).oldAnnotation # Absent
  /\ Recorded(<<"M">>, <<"U">>).commentDiff = Absent

\* The words of the cases of a union from the k-th on: each constructor, its
\* argument types, and a bar between two cases.
RECURSIVE CaseWords(_, _)
CaseWords(cases, k) ==
  IF k > Len(cases) THEN <<>>
  ELSE (IF k > 1 THEN <<<<"|">>>> ELSE <<>>)
         \o <<cases[k][1]>> \o cases[k][2] \o CaseWords(cases, k + 1)

\* The words of the declaration of an entity of a kind.
DeclarationWords(kind, e) ==
  IF kind \in {"values", "binops"} THEN <<e.name, <<":">>, e.type>>
  ELSE IF kind = "aliases"
  THEN <<<<"t","y","p","e">>, <<"a","l","i","a","s">>, e.name>> \o e.args
         \o <<<<"=">>, e.type>>
  ELSE <<<<"t","y","p","e">>, e.name>> \o e.args \o <<<<"=">>>>
         \o CaseWords(e.cases, 1)

\* The canonical rendering: the words of the declaration, one space between
\* two words.
Canonical(kind, e) == JoinWith(DeclarationWords(kind, e), <<" ">>)

A_AliasR == <<"t","y","p","e"," ","a","l","i","a","s"," ","R"," ","=", " ","I","n","t">>

\* An oldAnnotation is the canonical rendering of the published entity.
AnnotationIsCanonical(kind, e, c, recorded) ==
  recorded.oldAnnotation # Absent => recorded.oldAnnotation = Some(Canonical(kind, e))

\* C19: an oldAnnotation is the canonical rendering of the declaration of
\* the published entity, never of the current one: name : type for a value
\* or a binop, type alias name args = type for an alias, type name args =
\* cases for a union, each case being its constructor and its argument
\* types and two cases being separated by a bar, all with single spaces and
\* with nothing, no space either, for empty args.
C19_AnnotationIsCanonical ==
  /\ BothSnapshotsReturned => ForSharedEntities(Kinds, AnnotationIsCanonical)
  /\ Canonical("aliases", Alias(<<"R">>, S_old, <<>>, S_Int)) = A_AliasR

\* The alias R without type parameters got one, and the call has returned
\* the oldAnnotation type alias R = Int.
C19_Witness ==
  /\ ContentReturnedDiff
  /\ OneModuleEach
  /\ publishedDocs[1][1].aliases = <<Alias(<<"R">>, S_old, <<>>, S_Int)>>
  /\ currentDocs[1][1].aliases = <<Alias(<<"R">>, S_new, <<<<"a">>>>, S_String)>>
  /\ Recorded(<<"M">>, <<"R">>).oldAnnotation = Some(A_AliasR)

\* C20: in a ContentDiff, every module of the modules map has at least one
\* item and every item has a commentDiff or an oldAnnotation.
C20_NoEmptyEntry ==
  cpc \notin {"idle", "start"} /\ contentDiff # <<>> =>
    \A name \in DOMAIN contentDiff.modules :
      /\ DOMAIN contentDiff.modules[name].items # {}
      /\ \A item \in DOMAIN contentDiff.modules[name].items :
           contentDiff.modules[name].items[item] # NoItem

\* Of two shared modules, one unchanged, the call has returned a
\* ContentDiff with the other one alone.
C20_Witness ==
  /\ ContentReturnedDiff
  /\ Len(currentDocs[1]) = 2
  /\ \A k \in 1..2 : ModulesNamed(publishedDocs, currentDocs[1][k].name) # {}
  /\ Cardinality(DOMAIN contentDiff.modules) = 1

\* The entities of a kind of the module cm that are changed from the
\* published module pm, by name.
ChangedNames(pm, cm, kind) ==
  {c.name : c \in {x \in Range(Entities(cm, kind)) :
                     \E e \in EntitiesNamed(pm, kind, x.name) :
                       e.comment # x.comment
                         \/ Signature(kind, e) # Signature(kind, x)}}

\* The names of the shared modules with a changed entity: what the modules
\* map is keyed by, as the two snapshots alone determine it.
ChangedModuleNames ==
  {cm.name : cm \in {x \in Range(ModulesOf(currentDocs)) :
                       \E pm \in ModulesNamed(publishedDocs, x.name) :
                         \E kind \in Kinds : ChangedNames(pm, x, kind) # {}}}

\* The names of the items of a module of the map, as the two snapshots alone
\* determine them.
ChangedItemNames(name) ==
  UNION {ChangedNames(pm, cm, kind) :
           pm \in ModulesNamed(publishedDocs, name),
           cm \in ModulesNamed(currentDocs, name), kind \in Kinds}

\* C21: a README that is null skips the README comparison and nothing else:
\* the result has no readmeDiff, its modules are those that the two
\* snapshots determine whatever the READMEs are, and it is a ContentDiff as
\* soon as a module changed; readmeDiff is there only when both READMEs are
\* there, differ, and computeLineDiff of them is not absent.
C21_NullReadmeSkipsComparison ==
  BothSnapshotsReturned =>
    /\ publishedReadme = Absent \/ currentReadme = Absent
         => /\ contentDiff.readmeDiff = Absent
            /\ contentDiff.modules # <<>> => contentResult = "diff"
    /\ DOMAIN contentDiff.modules = ChangedModuleNames
    /\ \A name \in DOMAIN contentDiff.modules :
         DOMAIN contentDiff.modules[name].items = ChangedItemNames(name)
    /\ contentDiff.readmeDiff # Absent
         => /\ ReadmeChanged
            /\ computeLineDiff(publishedReadme[1], currentReadme[1]) # Absent
            /\ contentDiff.readmeDiff
                 = computeLineDiff(publishedReadme[1], currentReadme[1])

\* The call has returned a ContentDiff with modules and without readmeDiff
\* for a published README that is null and a current one that is not.
C21_Witness ==
  /\ ContentReturnedDiff
  /\ publishedReadme = Absent
  /\ currentReadme = Some(S_readme2)
  /\ contentDiff.modules # <<>>
  /\ contentDiff.readmeDiff = Absent

(***************************************************************************)
(* computeLineDiff: the claims.                                            *)
(***************************************************************************)
LineReturned == lpc = "done"

LineReturnedLines == lpc = "done" /\ lineResult = "lines"

\* C22: for every text a, computeLineDiff(a, a) is absent.
C22_SameTextIsAbsent ==
  LineReturned /\ oldText = newText => lineResult = "null"

\* The call has returned for twice the same text of two lines.
C22_Witness ==
  /\ LineReturned
  /\ oldText = newText
  /\ oldText = <<"a", NL, "b", NL>>
  /\ lineResult = "null"

StatusesOf(ds) == {ds[k][1] : k \in 1..Len(ds)}

\* C23: the result is never an empty sequence nor a sequence of context
\* lines only: it is absent exactly when no change is added or removed,
\* and otherwise it has a DiffLine of status 1 or -1.
C23_AbsentOrSomeChange ==
  LineReturned =>
    /\ lineResult = "null" <=>
         \A k \in 1..Len(changes) : ~changes[k].added /\ ~changes[k].removed
    /\ lineResult = "lines" =>
         Len(lineDiff) > 0 /\ StatusesOf(lineDiff) \cap {-1, 1} # {}
    /\ lineResult \in {"null", "lines"}

\* A call has returned lines of the three statuses, and the texts differ.
C23_Witness ==
  /\ LineReturnedLines
  /\ StatusesOf(lineDiff) = {-1, 0, 1}

\* The lines of the value of a change: one for each line break, and one for
\* the text after the last line break if there is such a text.
BlockLineCount(value) ==
  Cardinality({k \in 1..Len(value) : value[k] = NL})
    + (IF Len(value) > 0 /\ value[Len(value)] = NL THEN 0 ELSE 1)

\* The lines of the changes before the j-th.
RECURSIVE LinesBefore(_, _)
LinesBefore(cs, j) ==
  IF j <= 1 THEN 0
  ELSE LinesBefore(cs, j - 1) + BlockLineCount(cs[j - 1].value)

\* The DiffLines ds are those of the change c: as many as it has lines,
\* each of its status and without a line break, and the texts joined by
\* line breaks are the value of the change less one final line break.
IsExpansionOf(ds, c) ==
  /\ Len(ds) = BlockLineCount(c.value)
  /\ \A k \in 1..Len(ds) :
       /\ Len(ds[k]) = 2
       /\ ds[k][1] = (IF c.added THEN 1 ELSE IF c.removed THEN -1 ELSE 0)
       /\ \A x \in 1..Len(ds[k][2]) : ds[k][2][x] # NL
  /\ LET text == JoinWith([k \in 1..Len(ds) |-> ds[k][2]], <<NL>>)
     IN  c.value \in {text, text \o <<NL>>}

\* C24: the changes are expanded in order: a change of k lines gives k
\* consecutive DiffLines of its status, and the line break that ends its
\* value gives no empty DiffLine.
C24_BlocksExpandInOrder ==
  lpc \in {"loop", "done"} /\ lineResult # "null" =>
    /\ Len(lineDiff) = LinesBefore(changes, change)
    /\ \A j \in 1..(change - 1) :
         IsExpansionOf(SubSeq(lineDiff, LinesBefore(changes, j) + 1,
                              LinesBefore(changes, j + 1)), changes[j])

\* A call has returned the lines of a removed change of two lines and of an
\* added change of one empty line.
C24_Witness ==
  /\ LineReturnedLines
  /\ Len(changes) = 2
  /\ changes[1].removed /\ changes[1].value = <<"a", NL, "b", NL>>
  /\ changes[2].added /\ changes[2].value = <<NL>>
  /\ lineDiff = << <<-1, <<"a">>>>, <<-1, <<"b">>>>, <<1, <<>>>> >>

(***************************************************************************)
(* The published baseline: the claims.                                     *)
(***************************************************************************)
Resolved(what) == rpc = "done" /\ resource = what

\* The versions the source that was asked last can name: the names of the
\* directory of the package that are versions, the keys of releases.json.
Candidates ==
  IF queried[Len(queried)] = "cache"
  THEN IF elmCache.exists /\ ~elmCache.raises
       THEN {v \in {elmCache.content[k] : k \in 1..Len(elmCache.content)} :
               IsVersionName(v)}
       ELSE {}
  ELSE IF ~registry.threw /\ registry.ok
       THEN {registry.body[k] : k \in 1..Len(registry.body)}
       ELSE {}

\* v is before w in the order of major, then minor, then patch number.
VersionBelow(v, w) ==
  LET a == VersionParts(v)
      b == VersionParts(w)
  IN  \/ a[1][1] < b[1][1]
      \/ a[1][1] = b[1][1] /\ a[2][1] < b[2][1]
      \/ a[1][1] = b[1][1] /\ a[2][1] = b[2][1] /\ a[3][1] < b[3][1]

\* C25: the latest published version is the greatest candidate in the order
\* of the major, minor and patch numbers (1.10.0 after 1.9.0, 2.0.0 after
\* 1.99.99), and it is absent when there is no candidate.
C25_LatestIsNumericMaximum ==
  /\ VersionBelow(V_1_9_0, V_1_10_0) /\ VersionBelow(V_1_99_99, V_2_0_0)
  /\ Resolved("version") =>
       IF Candidates = {} THEN resolved = Absent
       ELSE /\ resolved # Absent
            /\ resolved[1] \in Candidates
            /\ \A w \in Candidates : ~VersionBelow(resolved[1], w)

\* The cache lists 1.10.0 before 1.9.0 and a name that is no version, and
\* 1.10.0 is the latest version.
C25_Witness ==
  /\ Resolved("version")
  /\ elmCache.content = <<V_1_10_0, V_1_9_0, N_tmp>>
  /\ queried = <<"cache">>
  /\ resolved = Some(V_1_10_0)

\* C26: the cache is asked first and the registry only after the cache gave
\* nothing; the first value that is not null is the result, and the result
\* is null when both gave nothing.
C26_CacheThenRegistry ==
  /\ rpc = "registry" =>
       queried = <<"cache">> /\ FromCache(resource, elmCache) = Absent
  /\ rpc = "done" =>
       LET cached == FromCache(resource, elmCache)
           fetched == FromRegistry(resource, registry)
       IN  /\ queried = IF cached # Absent THEN <<"cache">>
                        ELSE <<"cache", "registry">>
           /\ resolved = IF cached # Absent THEN cached ELSE fetched
           /\ cached = Absent /\ fetched = Absent => resolved = Absent

\* The docs.json of the cache holds null, and the documentation is the one
\* the registry gave.
C26_Witness ==
  /\ Resolved("docs")
  /\ elmCache.exists /\ ~elmCache.raises /\ elmCache.content = Absent
  /\ queried = <<"cache", "registry">>
  /\ resolved = Some(S_json2)

(***************************************************************************)
(* DocServer: the claims.                                                  *)
(***************************************************************************)
\* The t-th call of sendDiff was made for a change of a watched file, with
\* the manifest of a package.
ChangeOfPackage(t) ==
  /\ t <= Len(tasks)
  /\ tasks[t].cause \in WatchedFiles
  /\ tasks[t].at # "skipped"

\* One 'diff' message was broadcast for the t-th call of sendDiff.
BroadcastFor(t) == \E k \in 1..Len(sent) : sent[k].task = t

\* C27: a change of a watched file is eventually followed by the broadcast
\* of a 'diff' message with diff and contentDiff, the external calls
\* returning; stated here for the changes made while the manifest is the
\* one of a package.
C27_ChangeIsBroadcast ==
  \A t \in 1..MaxChanges : ChangeOfPackage(t) ~> BroadcastFor(t)

(***************************************************************************)
(* The three routines called one after the other: the claims.              *)
(***************************************************************************)
\* Calls of one routine with equal arguments returned equal results.
SameArgumentsSameResult ==
  \A r1, r2 \in history \cup Finished :
    r1.routine = r2.routine /\ r1.arguments = r2.arguments =>
      r1.returned = r2.returned

\* A step of a running call leaves the arguments of the call as they were.
ArgumentsKept ==
  /\ pc \notin {"idle", "done"} => output' = output
  /\ lpc \notin {"idle", "done"} => oldText' = oldText /\ newText' = newText
  /\ cpc \notin {"idle", "done"} =>
       /\ publishedDocs' = publishedDocs
       /\ currentDocs' = currentDocs
       /\ publishedReadme' = publishedReadme
       /\ currentReadme' = currentReadme

PropertyValues(object) == {object[x] : x \in DOMAIN object}

\* The DiffLines of a ContentDiff as it is sent.
AllDiffLines(v) ==
  (IF v.readmeDiff = Absent THEN {} ELSE Range(v.readmeDiff[1]))
  \cup UNION {UNION {IF item.commentDiff = Absent THEN {}
                     ELSE Range(item.commentDiff[1]) :
                       item \in PropertyValues(module.items)} :
                module \in PropertyValues(v.modules)}

\* The DiffLines of the UI for the DiffLines sent.
StatusOf(status) ==
  CASE status = -1 -> "DiffRemoved"
    [] status = 0 -> "DiffContext"
    [] status = 1 -> "DiffAdded"

LinesAsDecoded(field) ==
  IF field = Absent THEN Absent
  ELSE Some([k \in 1..Len(field[1]) |->
               [status |-> StatusOf(field[1][k][1]), content |-> field[1][k][2]]])

\* The decoder has accepted the value and has mapped every status.
AcceptedAndMapped ==
  /\ decoded.ok
  /\ decoded.value.readmeDiff = LinesAsDecoded(wire.value.readmeDiff)
  /\ DOMAIN decoded.value.modules = DOMAIN wire.value.modules
  /\ \A n \in DOMAIN wire.value.modules :
       /\ DOMAIN decoded.value.modules[n].items = DOMAIN wire.value.modules[n].items
       /\ \A x \in DOMAIN wire.value.modules[n].items :
            /\ decoded.value.modules[n].items[x].commentDiff =
                 LinesAsDecoded(wire.value.modules[n].items[x].commentDiff)
            /\ decoded.value.modules[n].items[x].oldAnnotation =
                 wire.value.modules[n].items[x].oldAnnotation

\* C29: every DiffLine of the server is an array of two elements whose
\* status is -1, 0 or 1; the decoder of the UI accepts every ContentDiff of
\* the server and maps -1 to removed, 0 to context and 1 to added; and a
\* ContentDiff with any other integer as a status makes the decoder fail.
C29_DecoderFailsOnOtherStatus ==
  /\ dpc # "idle" /\ wire.origin = "server" =>
       \A line \in AllDiffLines(wire.value) :
         Len(line) = 2 /\ line[1] \in {-1, 0, 1}
  /\ dpc = "decoded" /\ wire.origin = "server" => AcceptedAndMapped
  /\ dpc = "decoded"
       /\ (\E line \in AllDiffLines(wire.value) : line[1] \notin {-1, 0, 1})
       => ~decoded.ok

\* The records of changes of the module looked up.
RecordsOfModule ==
  {k \in 1..Len(lookupDiff.changedModules) :
     lookupDiff.changedModules[k].name = lookupModule}

\* The record of the module: the first one of its name.
RecordOfModule ==
  lookupDiff.changedModules[CHOOSE k \in RecordsOfModule :
                              \A j \in RecordsOfModule : k <= j]

ModuleIsAdded == lookupModule \in Range(lookupDiff.addedModules)

\* C30: lookupItem returns ModuleAdded for any item of a module of
\* addedModules, whatever the records of changes say; for another module it
\* returns Added for an item of the added list of the module, else Changed
\* for an item of its changed list, else Unchanged, as for a removed item
\* and for a module the diff does not mention.
C30_LookupItemStatus ==
  lookupStatus \notin {"none", "pending"} =>
    /\ ModuleIsAdded => lookupStatus = "ModuleAdded"
    /\ ~ModuleIsAdded /\ RecordsOfModule = {} => lookupStatus = "Unchanged"
    /\ ~ModuleIsAdded /\ RecordsOfModule # {} =>
         LET inAdded == lookupName \in Range(RecordOfModule.added)
             inChanged == lookupName \in Range(RecordOfModule.changed)
         IN  /\ inAdded => lookupStatus = "Added"
             /\ ~inAdded /\ inChanged => lookupStatus = "Changed"
             /\ ~inAdded /\ ~inChanged => lookupStatus = "Unchanged"

\* ModuleAdded was returned for an item of the added list of a record of
\* changes of an added module.
C30_Witness ==
  /\ lookupStatus = "ModuleAdded"
  /\ ModuleIsAdded
  /\ RecordsOfModule # {}
  /\ lookupName \in Range(RecordOfModule.added)

\* C31: hasChanges is true if and only if one of addedModules,
\* removedModules and changedModules is not empty, whatever the magnitude;
\* an ApiDiff whose three collections are empty has no changes.
C31_HasChangesIffSomeCollection ==
  anyChanges \in {"True", "False"} =>
    (anyChanges = "True" <=>
       \/ lookupDiff.addedModules # <<>>
       \/ lookupDiff.removedModules # <<>>
       \/ lookupDiff.changedModules # <<>>)

\* hasChanges has returned True for a PATCH diff whose only modules are
\* removed ones.
C31_Witness ==
  /\ anyChanges = "True"
  /\ lookupDiff.magnitude = T_PATCH
  /\ lookupDiff.addedModules = <<>>
  /\ lookupDiff.changedModules = <<>>
  /\ lookupDiff.removedModules = <<"N">>


\* ------------------------------------------------------------------
\* C32
\* ------------------------------------------------------------------

\* What the parseDiffOutput of the doc server and of the on-demand preview
\* (the same text twice) returned.
ReturnedByServerCopy == IF result = "diff" THEN Some(diff) ELSE Absent

\* C32: whatever the text, the parseDiffOutput of the doc server and of the
\* on-demand preview returns what the copy kept with the tests returns.
C32_CopiesAgree ==
  (Returned /\ result # "raised") =>
    ReturnedByServerCopy = parseDiffOutputOfTests(output)

\* ------------------------------------------------------------------
\* C33
\* ------------------------------------------------------------------

\* The places (counted from 1) of the per-module banners of the report.
ModuleBannerPlaces ==
  {b \in 2..Len(lines) :
     /\ ~IsAddedModulesHeader(lines[b])
     /\ ~IsRemovedModulesHeader(lines[b])
     /\ IsModuleBanner(lines[b])
     /\ ModuleBannerName(lines[b]) # NoMatch}

\* Line j belongs to the body of the module whose banner is line b.
InModuleBody(b, j) ==
  /\ j \in (b + 1)..Len(lines)
  /\ \A h \in (b + 1)..j : ~IsDashBanner(lines[h])

\* The subsection headers of the body of b above line j.
HeadersAbove(b, j) ==
  {h \in (b + 1)..(j - 1) : SectionHeader(Trim(lines[h])) # "null"}

\* The most recent subsection header of the body of b above line j, "null"
\* when there is none.
ActiveSubsection(b, j) ==
  IF HeadersAbove(b, j) = {} THEN "null"
  ELSE SectionHeader(Trim(lines[CHOOSE h \in HeadersAbove(b, j) :
                                  \A g \in HeadersAbove(b, j) : g <= h]))

\* The item a line names, NoMatch when it is a subsection header or has not
\* the shape of an item.
ItemOfLine(line) ==
  IF SectionHeader(Trim(line)) # "null" THEN NoMatch
  ELSE ItemNameMatch(StripMarker(Trim(line)))

\* The items of the body of b that stand under the subsection sect.
ItemsUnder(b, sect) ==
  {ItemOfLine(lines[j]) :
     j \in {h \in (b + 1)..Len(lines) :
              /\ InModuleBody(b, h)
              /\ ItemOfLine(lines[h]) # NoMatch
              /\ ActiveSubsection(b, h) = sect}}

\* The place of the k-th per-module banner.
BannerPlace(k) ==
  CHOOSE b \in ModuleBannerPlaces :
    Cardinality({a \in ModuleBannerPlaces : a <= b}) = k

\* C33: the active subsection is per module: the k-th record holds, under
\* each subsection, exactly the items whose most recent subsection header
\* within the body of the k-th banner is that subsection; an item above the
\* first header of its body, or under a header of an earlier module only, is
\* in no list.
C33_SubsectionIsPerModule ==
  ReturnedDiff =>
    /\ Len(diff.changedModules) = Cardinality(ModuleBannerPlaces)
    /\ \A k \in 1..Len(diff.changedModules) :
         /\ Range(diff.changedModules[k].added) = ItemsUnder(BannerPlace(k), "added")
         /\ Range(diff.changedModules[k].changed) = ItemsUnder(BannerPlace(k), "changed")
         /\ Range(diff.changedModules[k].removed) = ItemsUnder(BannerPlace(k), "removed")

\* A report was parsed in which a module opens a subsection and the next
\* module has an item above any header of its own: the item is in no list.
C33_Witness ==
  /\ ReturnedDiff
  /\ Len(diff.changedModules) = 2
  /\ HeadersAbove(BannerPlace(1), BannerPlace(2)) # {}
  /\ \E j \in (BannerPlace(2) + 1)..Len(lines) :
       /\ InModuleBody(BannerPlace(2), j)
       /\ ItemOfLine(lines[j]) # NoMatch
       /\ ActiveSubsection(BannerPlace(2), j) = "null"
  /\ diff.changedModules[2].added = <<>>

\* ------------------------------------------------------------------
\* C35
\* ------------------------------------------------------------------

\* The names a banner of a module list would give to a record.
ListBannerNames == {Drop(T_AddedModules, 1), Drop(T_RemovedModules, 1)}

\* Line j is a banner of a module list that has the shape of a per-module
\* banner too.
ListBannerAt(j) ==
  /\ j \in 2..Len(lines)
  /\ IsAddedModulesHeader(lines[j]) \/ IsRemovedModulesHeader(lines[j])
  /\ IsModuleBanner(lines[j])
  /\ ModuleBannerName(lines[j]) \in ListBannerNames

\* C35: at no point of the parse is there a ModuleChanges record, pushed or
\* under construction, named ADDED MODULES or REMOVED MODULES.
C35_ListBannerIsNoModule ==
  /\ mc.name \notin ListBannerNames
  /\ \A k \in 1..Len(diff.changedModules) :
       diff.changedModules[k].name \notin ListBannerNames

\* A report was parsed that has a banner of a module list as the first
\* section, one after another module list and one right after a module
\* body, and the per-module banner gave its record.
C35_Witness ==
  /\ ReturnedDiff
  /\ ListBannerAt(2)
  /\ ListBannerAt(3)
  /\ \E j \in 4..Len(lines) :
       /\ ListBannerAt(j)
       /\ (j - 1) \in ModuleBannerPlaces
  /\ Len(diff.changedModules) = 1

\* ------------------------------------------------------------------
\* C36
\* ------------------------------------------------------------------

\* C36: no call of sendDiff raises, whatever the changes of elm.json made
\* while it awaits: none reads a field of a null manifest.
C36_SendDiffNeverRaises ==
  \A t \in 1..Len(tasks) : tasks[t].at # "raised"

\* ------------------------------------------------------------------
\* C37
\* ------------------------------------------------------------------

\* C37: the 'diff' messages are broadcast in the order in which their calls
\* of sendDiff were made.
C37_BroadcastInCallOrder ==
  \A k \in 1..Len(sent) : \A l \in (k + 1)..Len(sent) :
    sent[k].task < sent[l].task

\* ------------------------------------------------------------------
\* C34
\* ------------------------------------------------------------------

\* The versions the registry named.
Published ==
  IF ~releases.threw /\ releases.ok
  THEN {releases.body[k] : k \in 1..Len(releases.body)}
  ELSE {}

\* The manifest is the one of a package, some published version is found
\* and the version of the manifest is below the greatest one, in the order
\* of the major, minor and patch numbers.
BehindLatest ==
  /\ ~elmJson.raises
  /\ elmJson.type = "package"
  /\ elmJson.version # Absent
  /\ \E latest \in Published :
       /\ \A v \in Published : ~VersionBelow(latest, v)
       /\ VersionBelow(elmJson.version[1], latest)

\* The handler is past line 601.
DiffDecided == previewDiff \notin {"none", "pending"}

\* C34: the API diff is skipped, elm diff not run and the diff null, exactly
\* for a package whose version is below the latest published one; in every
\* other case elm diff is run.
C34_SkippedIffBehindLatest ==
  DiffDecided =>
    /\ elmDiffRun = ~BehindLatest
    /\ ~elmDiffRun => previewDiff = "null"

\* The diff was skipped for version 1.9.0 of a package whose latest
\* published version is 1.10.0.
C34_Witness ==
  /\ DiffDecided
  /\ ~elmDiffRun
  /\ elmJson.version = Some(V_1_9_0)
  /\ Published = {V_1_9_0, V_1_10_0}

\* ------------------------------------------------------------------
\* C38
\* ------------------------------------------------------------------

\* C38: the work directory an invocation of downloadAndExtract returns holds
\* every file of the commit at the time it is returned, whatever the other
\* invocations for the same commit are doing.
C38_ReturnedTreeIsComplete ==
  \A p \in 1..Len(invocations) :
    invocations[p].at = "returned" => invocations[p].tree = FilesOf(Archive)

\* ------------------------------------------------------------------
\* C39
\* ------------------------------------------------------------------

\* The message is about the package and version the page displays.
ForThePage(message) ==
  /\ message.author = page.author
  /\ message.project = page.project
  /\ Just(message.version) = page.version

\* C39: a Diff message for another package or version than the one the page
\* displays changes neither diffData nor contentDiff of the page.
C39_OtherPackageChangesNothing ==
  [][(pushed' # pushed /\ ~ForThePage(pushed'[Len(pushed')])) =>
       /\ page'.diffData = page.diffData
       /\ page'.contentDiff = page.contentDiff]_vars
=============================================================================
